---- MODULE Spec2Model ----
(***************************************************************************)
(* Session orchestration core of MyAgentive: the SessionManager registry,  *)
(* the ManagedSession objects it holds, the AgentSession engine            *)
(* connections they own, and the session/message repositories.             *)
(*                                                                         *)
(* JavaScript runs every handler to completion, so one action is one       *)
(* synchronous handler; the only suspension point of the core is the       *)
(* `await this.outputIterator.next()` of AgentSession.getOutputStream, at  *)
(* which every listening loop of the model is parked.                      *)
(***************************************************************************)
EXTENDS Integers, Sequences, FiniteSets, TLC

----------------------------------------------------------------------------
(* Bounds of the model *)

\* ManagedSession objects constructed in one behaviour
MaxInst == 2
\* message rows inserted in one behaviour
MaxRows == 3
\* texts pushed into the input queue that is followed step by step
MaxPush == 3
\* milliseconds the clock advances in one behaviour
MaxTick == 3
\* queueMessage calls in one behaviour
MaxQueued == 3
\* steps of StepMs the monitor's clock advances in one behaviour
MaxClockSteps == 4

(* Program constants *)

\* default `limit` of messageRepo.getBySessionName
HistoryLimit == 100
\* monitoring.ts: minimum milliseconds between two messages to the group
MIN_FLUSH_INTERVAL == 2000

----------------------------------------------------------------------------
(* Inputs *)

\* session names a front-end may pass; "Demo" is not its own slug
Names == {"demo", "Demo"}
\* the name used by the long-history specification
LongName == "demo"
\* client ids: one web socket client, one Telegram chat
Clients == {"web-1", "telegram-persistent-7"}
\* the order in which one broadcast call visits the subscriber map
ClientOrder == <<"web-1", "telegram-persistent-7">>
\* message texts
Contents == {"hello"}
\* the characters of a user text the activity summary keeps
SummaryLimit == 100
\* a user text longer than that
LongText == "a text of 101 characters"
AllContents == Contents \cup {LongText}
\* content.length
textLength(t) ==
    IF t = LongText THEN SummaryLimit + 1
    ELSE IF t = "" THEN 0
    ELSE IF t = "Bash" THEN 4
    ELSE 5
\* the texts handed to the AgentSession whose input queue is followed step by step
Turns == {"hello", "again"}

ClientType(c) == IF c = "web-1" THEN "web" ELSE "telegram"
\* the clients of the web socket front-end, which send through the registry
WebClients == {c \in Clients : ClientType(c) = "web"}

NoName == "-"
NoInst == 0
NoText == [txt |-> "", n |-> 0]
\* a user text as message content
UserText(t) == [txt |-> t, n |-> 0]
\* the n-th text block the engine emits in reply to user text t
ReplyText(t, n) == [txt |-> t, n |-> n]

VARIABLES
    dbSessions,      \* table sessions: set of rows
    dbMessages,      \* table messages: rows in insertion (rowid) order
    uuid,            \* message ids handed out so far
    now,             \* the clock read by new Date()
    sessions,        \* SessionManager.sessions: name -> ManagedSession (index in ms) or NoInst
    clientSessions,  \* SessionManager.clientSessions: clientId -> name or NoName
    ms,              \* every ManagedSession constructed so far
    agents,          \* every AgentSession constructed so far
    broadcasts,      \* the broadcast calls of the last handler, in order, each with the
                     \* subscriber callbacks it invoked
    activity,        \* activity events emitted by the last handler, in order
    ret,             \* what the last handler returned or threw
    monitorUp,       \* the activity monitor (monitoring.ts) handles the events it is
                     \* given; when FALSE its logActivity fails on every event
    steps,           \* the statements of sendMessage, handleSDKMessage and the loop's
                     \* catch that the last handler ran, in the order it ran them
    conn,            \* one AgentSession with its MessageQueue, followed step by step:
                     \* its callers on one side, the SDK consuming the queue on the other
    mon,             \* the batching queue of monitoring.ts with its timer, its sends
                     \* in flight and the clock Date.now() reads
    tg               \* TelegramSubscriptionManager for the chat of client
                     \* "telegram-persistent-7", with the text handler and the
                     \* event handlers suspended on Telegram API calls

vars == <<dbSessions, dbMessages, uuid, now, sessions, clientSessions, ms, agents,
          broadcasts, activity, ret, monitorUp, steps, conn, mon, tg>>

----------------------------------------------------------------------------
(* sessionRepo *)

\* lower-case, spaces and underscores to dashes: on Names only the case changes
slugify(n) == IF n = "Demo" THEN "demo" ELSE n

getByName(tbl, n) == {r \in tbl : r.name = n}

\* INSERT of a second row with the same name violates UNIQUE(name)
createThrows(tbl, n) == \E r \in tbl : r.name = slugify(n)

\* getOrCreateByName looks the raw name up and inserts its slug
getOrCreateByNameThrows(tbl, n) == getByName(tbl, n) = {} /\ createThrows(tbl, n)

\* the title of a session that was never renamed (NULL)
NoTitle == ""
\* the title renameSession is called with
NewTitle == "Renamed"

sessionRow(id, n, by, t) ==
    [id |-> id, name |-> slugify(n), title |-> NoTitle, archived |-> FALSE,
     created_by |-> by, updated_at |-> t]

\* the row getOrCreateByName returns (when it does not throw)
getOrCreateByNameRow(tbl, n, by, id, t) ==
    IF getByName(tbl, n) # {} THEN CHOOSE r \in getByName(tbl, n) : TRUE
    ELSE sessionRow(id, n, by, t)

getOrCreateByName(tbl, n, by, id, t) == tbl \cup {getOrCreateByNameRow(tbl, n, by, id, t)}

touch(tbl, id, t) ==
    {IF r.id = id THEN [r EXCEPT !.updated_at = t] ELSE r : r \in tbl}

updateTitle(tbl, id, title, t) ==
    {IF r.id = id THEN [r EXCEPT !.title = title, !.updated_at = t] ELSE r : r \in tbl}

\* UPDATE ... WHERE name = slugify(?)
archiveBySlug(tbl, n, t) ==
    {IF r.name = slugify(n) THEN [r EXCEPT !.archived = TRUE, !.updated_at = t] ELSE r :
       r \in tbl}

archiveByName(tbl, n, t) ==
    {IF r.name = n THEN [r EXCEPT !.archived = TRUE, !.updated_at = t] ELSE r : r \in tbl}

unarchiveByName(tbl, n, t) ==
    {IF r.name = n THEN [r EXCEPT !.archived = FALSE, !.updated_at = t] ELSE r : r \in tbl}

deleteByName(tbl, n) == {r \in tbl : r.name # n}

----------------------------------------------------------------------------
(* messageRepo *)

messageRow(id, sid, role, content, source, t) ==
    [id |-> id, session_id |-> sid, role |-> role, content |-> content,
     source |-> source, timestamp |-> t]

\* FOREIGN KEY (session_id) REFERENCES sessions(id), with foreign_keys = ON
messageCreateThrows(tbl, sid) == ~\E s \in tbl : s.id = sid

messageCreate(msgs, row) == Append(msgs, row)

\* ON DELETE CASCADE
cascadeDelete(msgs, tbl) ==
    SelectSeq(msgs, LAMBDA r : \E s \in tbl : s.id = r.session_id)

\* ORDER BY timestamp ASC: the position of row k of s in the result; rows with
\* equal timestamps keep their rowid order, as the scan returns them
rankByTimestamp(s, k) ==
    1 + Cardinality({j \in 1..Len(s) : \/ s[j].timestamp < s[k].timestamp
                                       \/ s[j].timestamp = s[k].timestamp /\ j < k})

orderByTimestamp(s) ==
    [p \in 1..Len(s) |-> s[CHOOSE k \in 1..Len(s) : rankByTimestamp(s, k) = p]]

firstRows(s, k) == SubSeq(s, 1, IF Len(s) < k THEN Len(s) ELSE k)

\* SELECT m.* FROM messages m JOIN sessions s ... WHERE s.name = ? ORDER BY m.timestamp ASC LIMIT ?
getBySessionName(msgs, tbl, n, limit) ==
    firstRows(orderByTimestamp(
        SelectSeq(msgs, LAMBDA r : \E s \in tbl : s.id = r.session_id /\ s.name = n)), limit)

\* SessionManager.getSessionMessages: the default limit
getSessionMessages(msgs, tbl, n) == getBySessionName(msgs, tbl, n, HistoryLimit)

----------------------------------------------------------------------------
(* AgentSession *)

\* queue: user turns pushed and not yet taken by the engine
\* stream: the SDK's output iterator, "open", "ended" (next() gives done) or
\*         "failed" (next() rejects)
\* busy/re/n: the turn the engine is working on: the text it answers and the
\*         text blocks emitted so far
\* listeners: listening loops parked on this connection's output stream
newAgentSession(owner) ==
    [owner |-> owner, closed |-> FALSE, queue |-> <<>>, stream |-> "open",
     busy |-> FALSE, re |-> "", n |-> 0, listeners |-> 0]

\* AgentSession.sendMessage never throws: a closed session drops the text
agentSendThrows(a) == FALSE

agentSendMessage(a, content) ==
    IF ~a.closed THEN [a EXCEPT !.queue = Append(@, content)] ELSE a

agentClose(a) == [a EXCEPT !.closed = TRUE]

(* MessageQueue, and the AgentSession methods that use it, step by step.     *)
(* One record holds the AgentSession's closed flag, the queue's fields, the  *)
(* promise the iterator awaits, the iterator's position, and two histories:  *)
(* the texts given to push and the contents the consumer was handed.         *)

\* the content of the message close() resolves a pending wait with
Dummy == ""

newConnection ==
    [closed |-> FALSE,          \* AgentSession.closed
     messages |-> <<>>,         \* MessageQueue.messages
     waiting |-> FALSE,         \* MessageQueue.waiting holds a resolver
     qclosed |-> FALSE,         \* MessageQueue.closed
     promise |-> "none",        \* the promise of the else branch: none, pending, resolved
     val |-> Dummy,             \* the value the promise was resolved with
     iter |-> "suspended",      \* the generator: suspended (at start or at a yield),
                                \* awaiting (the promise), done
     pushed |-> <<>>,           \* every content given to push, in call order
     received |-> <<>>,         \* every content yielded to the consumer, in order
     ret |-> [op |-> "none", threw |-> FALSE]]

\* calling a promise's resolve function: only the first call settles it
resolve(c, v) ==
    IF c.promise = "pending" THEN [c EXCEPT !.promise = "resolved", !.val = v] ELSE c

\* push, were it to queue the message as well as handing it to the waiter
queuePushAlsoQueues(c, content) ==
    LET d == [c EXCEPT !.pushed = Append(@, content)]
    IN IF d.waiting
       THEN [resolve(d, content) EXCEPT !.waiting = FALSE,
                                        !.messages = Append(@, content)]
       ELSE [d EXCEPT !.messages = Append(@, content)]

queuePush(c, content) ==
    LET d == [c EXCEPT !.pushed = Append(@, content)]
    IN IF d.waiting
       THEN [resolve(d, content) EXCEPT !.waiting = FALSE]
       ELSE [d EXCEPT !.messages = Append(@, content)]

\* the consumer calls next() on the suspended generator, which runs to its next
\* yield, to its await, or to its end
queueNext(c) ==
    IF c.qclosed THEN [c EXCEPT !.iter = "done"]
    ELSE IF Len(c.messages) > 0
         THEN [c EXCEPT !.received = Append(@, Head(c.messages)),
                        !.messages = Tail(@)]
         ELSE [c EXCEPT !.waiting = TRUE, !.promise = "pending", !.iter = "awaiting"]

\* the awaited promise is resolved: the generator yields its value
queueResume(c) ==
    [c EXCEPT !.received = Append(@, c.val), !.promise = "none", !.iter = "suspended"]

\* close, were it to set the flag only
queueCloseFlagOnly(c) == [c EXCEPT !.qclosed = TRUE]

queueClose(c) ==
    LET d == [c EXCEPT !.qclosed = TRUE]
    IN IF d.waiting THEN resolve(d, Dummy) ELSE d

connSendMessage(c, content) ==
    LET d == IF ~c.closed THEN queuePush(c, content) ELSE c
    IN [d EXCEPT !.ret = [op |-> "sendMessage", threw |-> agentSendThrows(c)]]

connClose(c) ==
    [queueClose([c EXCEPT !.closed = TRUE]) EXCEPT !.ret = [op |-> "close", threw |-> FALSE]]

----------------------------------------------------------------------------
(* monitoring.ts: the batching queue.  messageQueue is kept as the number of *)
(* texts it holds; timer is the time flushTimeout is due at, or NoTimer;     *)
(* inflight counts the sendMessage calls awaited; starts is the history of   *)
(* the times a send was started at.                                          *)

\* the milliseconds the monitor's clock advances by in one step
StepMs == 1000
NoTimer == -1

\* lastFlushTime starts at 0 and Date.now() is far beyond MIN_FLUSH_INTERVAL
newMonitor ==
    [messageQueue |-> 0, flushTimeout |-> NoTimer, lastFlushTime |-> 0,
     inflight |-> 0, clock |-> MIN_FLUSH_INTERVAL, queued |-> 0, starts |-> <<>>]

\* setTimeout(() => { flushTimeout = null; flushQueue(); }, delay)
setFlushTimeout(m, delay) == [m EXCEPT !.flushTimeout = m.clock + delay]

\* flushQueue up to its await: it returns, or re-arms the timer, or takes the
\* whole queue and starts a send
flushQueue(m) ==
    LET timeSinceLastFlush == m.clock - m.lastFlushTime
    IN IF m.messageQueue = 0 THEN m
       ELSE IF timeSinceLastFlush < MIN_FLUSH_INTERVAL
       THEN IF m.flushTimeout = NoTimer
            THEN setFlushTimeout(m, MIN_FLUSH_INTERVAL - timeSinceLastFlush)
            ELSE m
       ELSE [m EXCEPT !.messageQueue = 0, !.inflight = @ + 1,
                      !.starts = Append(@, m.clock)]

\* flushQueue after its await: the send succeeded or failed
flushSent(m, ok) ==
    [m EXCEPT !.inflight = @ - 1,
              !.lastFlushTime = IF ok THEN m.clock ELSE @]

queueMessage(m) ==
    LET q == [m EXCEPT !.messageQueue = @ + 1, !.queued = @ + 1]
        timeSinceLastFlush == q.clock - q.lastFlushTime
        delay == IF MIN_FLUSH_INTERVAL - timeSinceLastFlush > 0
                 THEN MIN_FLUSH_INTERVAL - timeSinceLastFlush ELSE 0
    IN IF q.flushTimeout = NoTimer THEN setFlushTimeout(q, delay) ELSE q

\* the timer callback
flushTimerFires(m) == flushQueue([m EXCEPT !.flushTimeout = NoTimer])

----------------------------------------------------------------------------
(* TelegramSubscriptionManager, for the one chat whose client is            *)
(* "telegram-persistent-7".  Of the chat's subscription the record keeps the *)
(* session name and, of its activeResponse, the messageId and the timer.     *)
(* sessionName: subscriptions.get(chatId).sessionName, NoName with no entry  *)
(* activeResponse: activeResponse.messageId, NoMessage for null              *)
(* timeout: the messageId whose setTimeout is pending, or NoMessage          *)
(* placeholders: the "Thinking..." messages sent so far, numbered from 1     *)
(* handler: the session name held by the text handler suspended on its       *)
(*          awaits, or NoName                                                *)
(* finishing: the result, error and timeout handlers suspended on their      *)
(*          Telegram API call, each with the messageId it addressed          *)

TgClient == "telegram-persistent-7"
NoMessage == 0

newSubscriptionManager ==
    [sessionName |-> NoName, activeResponse |-> NoMessage, timeout |-> NoMessage,
     placeholders |-> 0, handler |-> NoName, finishing |-> <<>>]

isSubscribed(t) == t.sessionName # NoName

getSessionName(t) == t.sessionName

\* startActiveResponse: the old timer is cleared, a new one set
startActiveResponse(t, messageId) ==
    IF ~isSubscribed(t) THEN t
    ELSE [t EXCEPT !.activeResponse = messageId, !.timeout = messageId]

\* handleMessage(chatId, message) up to its first await.  A result with
\* success, or an error, met with an active response clears the timer and
\* suspends on updateActiveMessage; every other case leaves messageId and
\* timer as they are.
handleMessage(t, ev) ==
    IF ~isSubscribed(t) THEN t
    ELSE IF /\ t.activeResponse # NoMessage
            /\ \/ ev.type = "result" /\ ev.success
               \/ ev.type = "error"
    THEN [t EXCEPT !.timeout = NoMessage, !.finishing = Append(@, t.activeResponse)]
    ELSE t

\* the callback of setTimeout in startActiveResponse up to its await
timeoutFires(t) ==
    IF t.activeResponse # NoMessage
    THEN [t EXCEPT !.timeout = NoMessage, !.finishing = Append(@, t.activeResponse)]
    ELSE [t EXCEPT !.timeout = NoMessage]

\* the k-th suspended handler resumes: activeResponse = null
finish(t, k) ==
    [t EXCEPT !.activeResponse = NoMessage,
              !.finishing = SubSeq(@, 1, k - 1) \o SubSeq(@, k + 1, Len(@))]

\* the chat's callback (message) => this.handleMessage(chatId, message), run
\* on every event that the broadcast calls of one handler gave it, in order
RECURSIVE deliver(_, _)
deliver(t, calls) ==
    IF calls = <<>> THEN t
    ELSE LET call == Head(calls)
             called == /\ \E k \in DOMAIN call.to : call.to[k] = TgClient
                       /\ TgClient \notin call.threw
         IN deliver(IF called THEN handleMessage(t, call.ev) ELSE t, Tail(calls))

----------------------------------------------------------------------------
(* The state a handler works on, as one record; a handler is an operator     *)
(* from this record to the record it leaves behind.                          *)

St ==
    [dbSessions |-> dbSessions, dbMessages |-> dbMessages, uuid |-> uuid,
     sessions |-> sessions, clientSessions |-> clientSessions,
     ms |-> ms, agents |-> agents, broadcasts |-> <<>>, activity |-> <<>>,
     monitorUp |-> monitorUp, steps |-> <<>>]

\* A ManagedSession that the registry no longer holds and none of whose
\* connections has a parked loop is unreachable: no handler and no loop can
\* read or change it again.  So is a connection with no parked loop that its
\* ManagedSession no longer holds.  Unreachable objects are kept in one
\* canonical form.
reachableInst(s, i) ==
    \/ \E n \in DOMAIN s.sessions : s.sessions[n] = i
    \/ \E c \in DOMAIN s.agents : s.agents[c].owner = i /\ s.agents[c].listeners > 0

reachableAgent(s, c) ==
    \/ s.agents[c].listeners > 0
    \/ reachableInst(s, s.agents[c].owner) /\ s.ms[s.agents[c].owner].agentSession = c

collected(s) ==
    [s EXCEPT
       !.ms = [i \in DOMAIN s.ms |->
                 IF reachableInst(s, i) THEN s.ms[i]
                 ELSE [sessionId |-> 0, sessionName |-> "", agentSession |-> 0,
                       isListening |-> FALSE, subscribers |-> {}]],
       !.agents = [c \in DOMAIN s.agents |->
                 IF reachableAgent(s, c) THEN s.agents[c]
                 ELSE [owner |-> s.agents[c].owner, closed |-> s.agents[c].closed,
                       queue |-> <<>>,
                       stream |-> "ended", busy |-> FALSE, re |-> "", n |-> 0,
                       listeners |-> 0]]]

\* a handler leaves s behind, returns r, and left the chat's subscription as t
\* before the events it broadcast reached the chat's callback
CommitWith(s, r, t) ==
    /\ dbSessions' = s.dbSessions
    /\ dbMessages' = s.dbMessages
    /\ uuid' = s.uuid
    /\ sessions' = s.sessions
    /\ clientSessions' = s.clientSessions
    /\ LET g == collected(s) IN ms' = g.ms /\ agents' = g.agents
    /\ broadcasts' = s.broadcasts
    /\ activity' = s.activity
    /\ ret' = r
    /\ now' = now
    /\ monitorUp' = s.monitorUp
    /\ steps' = s.steps
    /\ mon' = mon
    /\ conn' = conn
    /\ tg' = deliver(t, s.broadcasts)

Commit(s, r) == CommitWith(s, r, tg)

\* what the last handler, called on session name n, gave its caller: a value,
\* an exception, or nothing
Returned(op, n, val) == [op |-> op, name |-> n, val |-> val, threw |-> FALSE]
Threw(op, n) == [op |-> op, name |-> n, val |-> 0, threw |-> TRUE]
Void == [op |-> "", name |-> "", val |-> 0, threw |-> FALSE]

----------------------------------------------------------------------------
(* ManagedSession *)

newManagedSession(sessionId, sessionName, agent) ==
    [sessionId |-> sessionId, sessionName |-> sessionName, agentSession |-> agent,
     isListening |-> FALSE, subscribers |-> {}]

wsEvent(type, content, source, tool, success) ==
    [type |-> type, content |-> content, source |-> source, tool |-> tool,
     success |-> success]

\* the position in the table of the row with id rid that holds the content of
\* event ev for session sid, 0 when there is none
rowStored(msgs, rid, ev, sid) ==
    LET at == {k \in 1..Len(msgs) : /\ msgs[k].id = rid
                                    /\ msgs[k].content = ev.content
                                    /\ msgs[k].session_id = sid}
    IN IF at = {} THEN 0 ELSE CHOOSE k \in at : TRUE

\* broadcast that returns after the first subscriber of the map
broadcastFirstOnly(s, i, ev, rid, bad) ==
    LET subs == s.ms[i].subscribers
        order == SelectSeq(ClientOrder, LAMBDA c : c \in subs)
        to == SubSeq(order, 1, IF order = <<>> THEN 0 ELSE 1)
        call == [inst |-> i, ev |-> ev, rid |-> rid, to |-> to,
                 threw |-> {c \in bad : \E k \in DOMAIN to : to[k] = c},
                 stored |-> rowStored(s.dbMessages, rid, ev, s.ms[i].sessionId),
                 rows |-> Len(s.dbMessages)]
    IN [s EXCEPT !.broadcasts = Append(@, call), !.steps = Append(@, "broadcast"),
                 !.ms[i].subscribers = @ \ call.threw]

\* broadcast without its try/catch: the first callback that throws ends the
\* for loop, and no subscriber is deleted
broadcastNoCatch(s, i, ev, rid, bad) ==
    LET subs == s.ms[i].subscribers
        order == SelectSeq(ClientOrder, LAMBDA c : c \in subs)
        stop == {k \in DOMAIN order : order[k] \in bad}
        to == SubSeq(order, 1, IF stop = {} THEN Len(order)
                               ELSE CHOOSE k \in stop : \A j \in stop : k <= j)
        call == [inst |-> i, ev |-> ev, rid |-> rid, to |-> to,
                 threw |-> bad \cap subs,
                 stored |-> rowStored(s.dbMessages, rid, ev, s.ms[i].sessionId),
                 rows |-> Len(s.dbMessages)]
    IN [s EXCEPT !.broadcasts = Append(@, call), !.steps = Append(@, "broadcast")]

\* One broadcast call: every subscriber's callback once, in map order (to); a
\* subscriber whose callback throws (bad) is deleted from the map.  rid is the
\* message row the event reports (0 when it reports none); `stored` and `rows`
\* are what a callback finds in the table when it runs: the position of that
\* row and the number of rows.
broadcast(s, i, ev, rid, bad) ==
    LET subs == s.ms[i].subscribers
        call == [inst |-> i, ev |-> ev, rid |-> rid,
                 to |-> SelectSeq(ClientOrder, LAMBDA c : c \in subs),
                 threw |-> bad \cap subs,
                 stored |-> rowStored(s.dbMessages, rid, ev, s.ms[i].sessionId),
                 rows |-> Len(s.dbMessages)]
    IN [s EXCEPT !.broadcasts = Append(@, call), !.steps = Append(@, "broadcast"),
                 !.ms[i].subscribers = @ \ bad]

broadcastError(s, i, bad) ==
    broadcast(s, i, wsEvent("error", NoText, "", "", FALSE), 0, bad)

\* logActivity, the async function the "activity" listener calls, fails on the
\* event: its promise rejects
logActivityRejects(s) == ~s.monitorUp

\* a listener that would call a synchronous logActivity with no catch
activityListenerThrowsOnFailure(s) == logActivityRejects(s)

\* the "activity" listener throws into emit: never, it only attaches
\* .catch(console.error) to the promise of logActivity
activityListenerThrows(s) == FALSE

\* emit("activity", event): the event, with what became of it in the monitor
emitActivity(s, i, type, summary) ==
    [s EXCEPT !.activity = Append(@, [sessionId |-> s.ms[i].sessionId,
                                      sessionName |-> s.ms[i].sessionName,
                                      type |-> type, summary |-> summary,
                                      rejected |-> logActivityRejects(s)]),
              !.steps = Append(@, "activity")]

\* startListening without its `if (this.isListening) return`
startListeningUnguarded(s, i) ==
    LET a == s.ms[i].agentSession
    IN IF s.agents[a].closed THEN s
       ELSE [s EXCEPT !.ms[i].isListening = TRUE, !.agents[a].listeners = @ + 1]

\* startListening up to its first await: the flag is set and the loop parks on
\* the connection's output stream.  On a closed connection the generator's
\* while (!this.closed) ends at once and finally clears the flag again.
startListening(s, i) ==
    LET a == s.ms[i].agentSession
    IN IF s.ms[i].isListening THEN s
       ELSE IF s.agents[a].closed THEN [s EXCEPT !.steps = Append(@, "listen")]
       ELSE [s EXCEPT !.ms[i].isListening = TRUE, !.agents[a].listeners = @ + 1,
                      !.steps = Append(@, "listen")]

resetAgentSession(s, i) ==
    LET a == s.ms[i].agentSession
        closedAgents == [s.agents EXCEPT ![a] = agentClose(@)]
    IN [s EXCEPT !.agents = Append(closedAgents, newAgentSession(i)),
                 !.ms[i].agentSession = Len(s.agents) + 1,
                 !.ms[i].isListening = FALSE]

\* lines 110-129 of sendMessage with the loop started before the text is sent
dispatchListenFirst(s, i, content, bad) ==
    LET l == startListening(s, i)
        a == l.ms[i].agentSession
    IN [l EXCEPT !.agents[a] = agentSendMessage(@, content),
                 !.steps = Append(@, "send")]

\* lines 110-129 of sendMessage: send, reset and retry once, then listen
dispatchToAgent(s, i, content, bad) ==
    LET a == s.ms[i].agentSession
    IN IF ~agentSendThrows(s.agents[a])
       THEN startListening([s EXCEPT !.agents[a] = agentSendMessage(@, content),
                                     !.steps = Append(@, "send")], i)
       ELSE LET r == resetAgentSession(s, i)
                a2 == r.ms[i].agentSession
            IN IF ~agentSendThrows(r.agents[a2])
               THEN startListening(
                        [r EXCEPT !.agents[a2] = agentSendMessage(@, content),
                                  !.steps = Append(@, "send")], i)
               ELSE broadcastError(r, i, bad)

\* content.substring(from, to): the characters of content it keeps
substring(content, from, to) ==
    [of |-> content, from |-> from,
     to |-> IF textLength(content) < to THEN textLength(content) ELSE to]

\* a summary string: a prefix, the characters sub keeps of a text (the text and
\* how many of its characters), a suffix
summaryOf(prefix, sub, suffix) ==
    [prefix |-> prefix, text |-> sub.of, kept |-> sub.to - sub.from, suffix |-> suffix]

\* the summary that keeps the whole content
userSummaryWhole(content) ==
    summaryOf("User: ", substring(content, 0, textLength(content)), "...")

userSummary(content) == summaryOf("User: ", substring(content, 0, SummaryLimit), "...")

\* sendMessage that stores the user message a second time before it dispatches
managedSendMessageTwice(s, i, content, source, bad, t) ==
    LET m == s.ms[i]
        rid == s.uuid + 1
        row == messageRow(rid, m.sessionId, "user", UserText(content), source, t)
        s1 == [s EXCEPT !.dbMessages = messageCreate(@, row), !.uuid = rid,
                        !.steps = Append(@, "append"),
                        !.dbSessions = touch(@, m.sessionId, t)]
        s2 == broadcast(s1, i,
                        wsEvent("user_message", UserText(content), source, "", FALSE),
                        rid, bad)
        s3 == emitActivity(s2, i, "message", userSummary(content))
        s4 == [s3 EXCEPT !.dbMessages = messageCreate(@, [row EXCEPT !.id = rid + 1]),
                         !.uuid = rid + 1]
    IN IF messageCreateThrows(s.dbSessions, m.sessionId)
       THEN [s |-> s, threw |-> TRUE]
       ELSE [s |-> dispatchToAgent(s4, i, content, bad), threw |-> FALSE]

\* sendMessage that broadcasts and emits before it stores the user message
managedSendMessageBroadcastFirst(s, i, content, source, bad, t) ==
    LET m == s.ms[i]
        rid == s.uuid + 1
        row == messageRow(rid, m.sessionId, "user", UserText(content), source, t)
        s1 == broadcast(s, i,
                        wsEvent("user_message", UserText(content), source, "", FALSE),
                        rid, bad)
        s2 == emitActivity(s1, i, "message", userSummary(content))
        s3 == [s2 EXCEPT !.dbMessages = messageCreate(@, row), !.uuid = rid,
                        !.steps = Append(@, "append"),
                         !.dbSessions = touch(@, m.sessionId, t)]
    IN IF messageCreateThrows(s.dbSessions, m.sessionId)
       THEN [s |-> s2, threw |-> TRUE]
       ELSE [s |-> dispatchToAgent(s3, i, content, bad), threw |-> FALSE]

\* ManagedSession.sendMessage; the result is [s, threw]
managedSendMessage(s, i, content, source, bad, t) ==
    LET m == s.ms[i]
        rid == s.uuid + 1
        row == messageRow(rid, m.sessionId, "user", UserText(content), source, t)
        s1 == [s EXCEPT !.dbMessages = messageCreate(@, row), !.uuid = rid,
                        !.steps = Append(@, "append"),
                        !.dbSessions = touch(@, m.sessionId, t)]
        s2 == broadcast(s1, i,
                        wsEvent("user_message", UserText(content), source, "", FALSE),
                        rid, bad)
        s3 == emitActivity(s2, i, "message", userSummary(content))
    IN IF messageCreateThrows(s.dbSessions, m.sessionId)
       THEN [s |-> s, threw |-> TRUE]
       ELSE IF activityListenerThrows(s3)
       THEN [s |-> s3, threw |-> TRUE]
       ELSE [s |-> dispatchToAgent(s3, i, content, bad), threw |-> FALSE]

\* storeAndBroadcastAssistant with its two statements swapped
broadcastAndStoreAssistant(s, i, content, bad, t) ==
    LET m == s.ms[i]
        rid == s.uuid + 1
        row == messageRow(rid, m.sessionId, "assistant", content, "agent", t)
        s1 == broadcast(s, i, wsEvent("assistant_message", content, "", "", FALSE),
                        rid, bad)
    IN IF messageCreateThrows(s.dbSessions, m.sessionId)
       THEN [s |-> s1, threw |-> TRUE]
       ELSE [s |-> [s1 EXCEPT !.dbMessages = messageCreate(@, row), !.uuid = rid,
                        !.steps = Append(@, "append"),
                              !.dbSessions = touch(@, m.sessionId, t)],
             threw |-> FALSE]

\* storeAndBroadcastAssistant; the result is [s, threw]
storeAndBroadcastAssistant(s, i, content, bad, t) ==
    LET m == s.ms[i]
        rid == s.uuid + 1
        row == messageRow(rid, m.sessionId, "assistant", content, "agent", t)
        s1 == [s EXCEPT !.dbMessages = messageCreate(@, row), !.uuid = rid,
                        !.steps = Append(@, "append"),
                        !.dbSessions = touch(@, m.sessionId, t)]
    IN IF messageCreateThrows(s.dbSessions, m.sessionId)
       THEN [s |-> s, threw |-> TRUE]
       ELSE [s |-> broadcast(s1, i,
                             wsEvent("assistant_message", content, "", "", FALSE),
                             rid, bad),
             threw |-> FALSE]

\* the content blocks of one assistant message, last block first
RECURSIVE handleBlocksBackwards(_, _, _, _, _)
handleBlocksBackwards(s, i, blocks, bad, t) ==
    IF blocks = <<>> THEN [s |-> s, threw |-> FALSE]
    ELSE LET b == blocks[Len(blocks)]
             r == IF b.type = "text"
                  THEN storeAndBroadcastAssistant(s, i, b.text, bad, t)
                  ELSE IF b.type = "tool_use"
                  THEN [s |-> emitActivity(
                                broadcast(s, i, wsEvent("tool_use", NoText, "", b.name, FALSE),
                                          0, bad),
                                i, "tool_use",
                                summaryOf("Tool: ", substring(b.name, 0, textLength(b.name)),
                                          "")),
                        threw |-> activityListenerThrows(s)]
                  ELSE [s |-> s, threw |-> FALSE]
         IN IF r.threw THEN r
            ELSE handleBlocksBackwards(r.s, i, SubSeq(blocks, 1, Len(blocks) - 1), bad, t)

\* the content blocks of one assistant message, in array order
RECURSIVE handleBlocks(_, _, _, _, _)
handleBlocks(s, i, blocks, bad, t) ==
    IF blocks = <<>> THEN [s |-> s, threw |-> FALSE]
    ELSE LET b == Head(blocks)
             r == IF b.type = "text"
                  THEN storeAndBroadcastAssistant(s, i, b.text, bad, t)
                  ELSE IF b.type = "tool_use"
                  THEN [s |-> emitActivity(
                                broadcast(s, i, wsEvent("tool_use", NoText, "", b.name, FALSE),
                                          0, bad),
                                i, "tool_use",
                                summaryOf("Tool: ", substring(b.name, 0, textLength(b.name)),
                                          "")),
                        threw |-> activityListenerThrows(s)]
                  ELSE [s |-> s, threw |-> FALSE]
         IN IF r.threw THEN r ELSE handleBlocks(r.s, i, Tail(blocks), bad, t)

\* handleSDKMessage that stores a turn result as an assistant message
handleSDKMessageStoresResult(s, i, msg, bad, t) ==
    IF msg.type = "assistant"
    THEN handleBlocks(s, i, msg.blocks, bad, t)
    ELSE IF msg.type = "result"
    THEN storeAndBroadcastAssistant(s, i, NoText, bad, t)
    ELSE [s |-> s, threw |-> FALSE]

\* handleSDKMessage; the result is [s, threw]
handleSDKMessage(s, i, msg, bad, t) ==
    IF msg.type = "assistant"
    THEN handleBlocks(s, i, msg.blocks, bad, t)
    ELSE IF msg.type = "result"
    THEN [s |-> broadcast(s, i, wsEvent("result", NoText, "", "", msg.subtype = "success"),
                          0, bad),
          threw |-> FALSE]
    ELSE [s |-> s, threw |-> FALSE]

\* the finally block of startListening, and the loop leaving connection c
loopExit(s, c) ==
    [s EXCEPT !.ms[s.agents[c].owner].isListening = FALSE,
              !.agents[c].listeners = @ - 1]

\* the catch block of startListening without its emitActivity
loopCatchNoActivity(s, c, bad) ==
    broadcastError(s, s.agents[c].owner, bad)

\* the catch block of startListening
loopCatch(s, c, bad) ==
    LET i == s.agents[c].owner
    IN emitActivity(broadcastError(s, i, bad), i, "error",
                    summaryOf("Session error: ", substring("", 0, 0), ""))

\* close that leaves the connection as it is
managedCloseNothing(s, i) == s

managedClose(s, i) ==
    [s EXCEPT !.agents[s.ms[i].agentSession] = agentClose(@)]

----------------------------------------------------------------------------
(* SessionManager *)

\* getOrCreateSession without the look-up in the in-memory map
getOrCreateSessionNoLookup(s, n, by, t) ==
    LET id == Len(s.ms) + 1
        row == getOrCreateByNameRow(s.dbSessions, n, by, id, t)
    IN IF getOrCreateByNameThrows(s.dbSessions, n)
       THEN [s |-> s, inst |-> NoInst, threw |-> TRUE]
       ELSE [s |-> [s EXCEPT !.dbSessions = getOrCreateByName(@, n, by, id, t),
                             !.ms = Append(@, newManagedSession(row.id, row.name,
                                                                Len(s.agents) + 1)),
                             !.agents = Append(@, newAgentSession(id)),
                             !.sessions[n] = id],
             inst |-> id, threw |-> FALSE]

\* getOrCreateSession; the result is [s, inst, threw]
getOrCreateSession(s, n, by, t) ==
    LET id == Len(s.ms) + 1
        row == getOrCreateByNameRow(s.dbSessions, n, by, id, t)
    IN IF s.sessions[n] # NoInst
       THEN [s |-> s, inst |-> s.sessions[n], threw |-> FALSE]
       ELSE IF getOrCreateByNameThrows(s.dbSessions, n)
       THEN [s |-> s, inst |-> NoInst, threw |-> TRUE]
       ELSE [s |-> [s EXCEPT !.dbSessions = getOrCreateByName(@, n, by, id, t),
                             !.ms = Append(@, newManagedSession(row.id, row.name,
                                                                Len(s.agents) + 1)),
                             !.agents = Append(@, newAgentSession(id)),
                             !.sessions[n] = id],
             inst |-> id, threw |-> FALSE]

unsubscribeClient(s, c) ==
    LET cur == s.clientSessions[c]
        i == s.sessions[cur]
    IN IF cur = NoName THEN s
       ELSE IF i = NoInst THEN [s EXCEPT !.clientSessions[c] = NoName]
       ELSE [s EXCEPT !.ms[i].subscribers = @ \ {c}, !.clientSessions[c] = NoName]

\* subscribeClient without its clientSessions.set
subscribeClientNoTrack(s, c, n, t) ==
    LET s1 == unsubscribeClient(s, c)
        r == getOrCreateSession(s1, n, ClientType(c), t)
    IN IF r.threw THEN r
       ELSE [s |-> [r.s EXCEPT !.ms[r.inst].subscribers = @ \cup {c}],
             inst |-> r.inst, threw |-> FALSE]

\* subscribeClient; the result is [s, inst, threw]
subscribeClient(s, c, n, t) ==
    LET s1 == unsubscribeClient(s, c)
        r == getOrCreateSession(s1, n, ClientType(c), t)
    IN IF r.threw THEN r
       ELSE [s |-> [r.s EXCEPT !.ms[r.inst].subscribers = @ \cup {c},
                               !.clientSessions[c] = n],
             inst |-> r.inst, threw |-> FALSE]

\* SessionManager.sendMessage; the result is [s, threw]
sendMessage(s, c, content, source, bad, t) ==
    LET n == s.clientSessions[c]
    IN IF n = NoName THEN [s |-> s, threw |-> TRUE]
       ELSE IF s.sessions[n] = NoInst THEN [s |-> s, threw |-> TRUE]
       ELSE managedSendMessage(s, s.sessions[n], content, source, bad, t)

\* the eviction, were it to close the instance and leave it registered
evictKeepsEntry(s, n) ==
    IF s.sessions[n] = NoInst THEN s ELSE managedClose(s, s.sessions[n])

\* close the live instance of n, if any, and drop it from the registry
evict(s, n) ==
    IF s.sessions[n] = NoInst THEN s
    ELSE [managedClose(s, s.sessions[n]) EXCEPT !.sessions[n] = NoInst]

\* archiveSession, were it to drop the messages of the session it archives
archiveSessionPurges(s, n, t) ==
    [evict(s, n) EXCEPT !.dbSessions = archiveByName(@, n, t),
                        !.dbMessages = cascadeDelete(@, deleteByName(s.dbSessions, n))]

archiveSession(s, n, t) == [evict(s, n) EXCEPT !.dbSessions = archiveByName(@, n, t)]

unarchiveSession(s, n, t) == [s EXCEPT !.dbSessions = unarchiveByName(@, n, t)]

\* renameSession; the result is [s, found]
renameSession(s, n, title, t) ==
    IF getByName(s.dbSessions, n) = {} THEN [s |-> s, found |-> FALSE]
    ELSE [s |-> [s EXCEPT !.dbSessions =
                    updateTitle(@, (CHOOSE r \in getByName(s.dbSessions, n) : TRUE).id,
                                title, t)],
          found |-> TRUE]

deleteSession(s, n) ==
    LET tbl == deleteByName(s.dbSessions, n)
    IN [evict(s, n) EXCEPT !.dbSessions = tbl, !.dbMessages = cascadeDelete(@, tbl)]

\* hasSubscribers that always answers no
hasSubscribersNever(m) == FALSE

hasSubscribers(m) == m.subscribers # {}

RECURSIVE cleanupNames(_, _)
cleanupNames(s, todo) ==
    IF todo = {} THEN s
    ELSE LET n == CHOOSE x \in todo : TRUE
         IN cleanupNames(IF s.sessions[n] # NoInst /\ ~hasSubscribers(s.ms[s.sessions[n]])
                         THEN evict(s, n) ELSE s,
                         todo \ {n})

cleanup(s) == cleanupNames(s, Names)

\* 1 when a statement changed a row named n, else 0
changes(tbl, n) == IF getByName(tbl, n) # {} THEN 1 ELSE 0

\* TelegramSubscriptionManager.unsubscribe; the handlers suspended on an API
\* call keep the deleted entry, and what they assign to it is never read
unsubscribe(s, t) ==
    IF ~isSubscribed(t) THEN [s |-> s, t |-> t]
    ELSE [s |-> unsubscribeClient(s, TgClient),
          t |-> [t EXCEPT !.sessionName = NoName, !.activeResponse = NoMessage,
                          !.timeout = NoMessage, !.finishing = <<>>]]

\* TelegramSubscriptionManager.subscribe; the result is [s, t, inst, threw]
subscribe(s, t, n, time) ==
    IF t.sessionName = n THEN [s |-> s, t |-> t, inst |-> NoInst, threw |-> FALSE]
    ELSE LET u == unsubscribe(s, t)
             r == subscribeClient(u.s, TgClient, n, time)
         IN IF r.threw THEN [s |-> r.s, t |-> u.t, inst |-> NoInst, threw |-> TRUE]
            ELSE [s |-> r.s,
                  t |-> [u.t EXCEPT !.sessionName = n, !.activeResponse = NoMessage],
                  inst |-> r.inst, threw |-> FALSE]

----------------------------------------------------------------------------
(* The engine behind an AgentSession: the SDK's query() *)

Shapes == {<<"text">>, <<"tool_use">>, <<"text", "tool_use", "text">>}

textCount(shape) == Len(SelectSeq(shape, LAMBDA x : x = "text"))

\* the content blocks of an assistant message of the given shape, its text
\* blocks numbered on from the a.n the turn has emitted
blocksOf(a, shape) ==
    [k \in 1..Len(shape) |->
        IF shape[k] = "text"
        THEN [type |-> "text", name |-> "",
              text |-> ReplyText(a.re, a.n + textCount(SubSeq(shape, 1, k)))]
        ELSE [type |-> shape[k], name |-> "Bash", text |-> NoText]]

sdkMessage(type, blocks, subtype) == [type |-> type, blocks |-> blocks, subtype |-> subtype]

texts(msg) == Len(SelectSeq(msg.blocks, LAMBDA b : b.type = "text"))

\* what outputIterator.next() can resolve to while the engine works on a turn
engineMessages(a) ==
    IF a.busy /\ a.stream = "open"
    THEN {sdkMessage("assistant", blocksOf(a, sh), "") : sh \in Shapes}
         \cup {sdkMessage("result", <<>>, st) : st \in {"success", "error_during_execution"}}
         \cup {sdkMessage("system", <<>>, "init")}
    ELSE {}

\* the engine after it has emitted msg: a result message ends the turn
emitted(a, msg) ==
    IF msg.type = "result" THEN [a EXCEPT !.busy = FALSE, !.re = "", !.n = 0]
    ELSE [a EXCEPT !.n = @ + texts(msg)]

\* the engine starts the turn at the head of the input queue
engineTake(a) ==
    [a EXCEPT !.busy = TRUE, !.re = Head(a.queue), !.n = 0, !.queue = Tail(a.queue)]

\* the engine stops for good: the turn it was working on is abandoned
engineStop(a, how) == [a EXCEPT !.stream = how, !.busy = FALSE, !.re = "", !.n = 0]

----------------------------------------------------------------------------
(* Actions *)

\* the callbacks that throw during one handler: none, or one subscriber's
BadSets(subs) == {{}} \cup {{c} : c \in subs}

Live(n) == n \in Names /\ sessions[n] # NoInst

CanCreate(n) == Live(n) \/ Len(ms) < MaxInst

Init ==
    /\ dbSessions = {}
    /\ dbMessages = <<>>
    /\ uuid = 0
    /\ now = 0
    /\ sessions = [n \in Names |-> NoInst]
    /\ clientSessions = [c \in Clients |-> NoName]
    /\ ms = <<>>
    /\ agents = <<>>
    /\ broadcasts = <<>>
    /\ activity = <<>>
    /\ ret = Void
    /\ monitorUp = TRUE
    /\ steps = <<>>
    /\ mon = newMonitor
    /\ conn = newConnection
    /\ tg = newSubscriptionManager

GetOrCreateSession(n, by) ==
    /\ CanCreate(n)
    /\ LET r == getOrCreateSession(St, n, by, now)
       IN Commit(r.s, IF r.threw THEN Threw("getOrCreateSession", n)
                      ELSE Returned("getOrCreateSession", n, r.inst))

SubscribeClient(c, n) ==
    /\ CanCreate(n)
    /\ LET r == subscribeClient(St, c, n, now)
       IN Commit(r.s, IF r.threw THEN Threw("subscribeClient", n)
                      ELSE Returned("subscribeClient", n, r.inst))

UnsubscribeClient(c) ==
    Commit(unsubscribeClient(St, c), Void)

\* server.ts: sessionManager.sendMessage(clientId, message.content, "web")
SendMessage(c, content, bad) ==
    /\ uuid < MaxRows
    /\ LET r == sendMessage(St, c, content, ClientType(c), bad, now)
       IN Commit(r.s, IF r.threw THEN Threw("sendMessage", clientSessions[c])
                      ELSE Returned("sendMessage", clientSessions[c],
                                    sessions[clientSessions[c]]))

\* message-handler.ts: getOrCreateSession(sessionName, "telegram").sendMessage(text, "telegram")
TelegramSend(n, content, bad) ==
    /\ uuid < MaxRows
    /\ CanCreate(n)
    /\ LET g == getOrCreateSession(St, n, "telegram", now)
           r == managedSendMessage(g.s, g.inst, content, "telegram", bad, now)
       IN IF g.threw THEN Commit(g.s, Threw("sendMessage", n))
          ELSE Commit(r.s, IF r.threw THEN Threw("sendMessage", n)
                           ELSE Returned("sendMessage", n, g.inst))

ArchiveSession(n) ==
    Commit(archiveSession(St, n, now), Returned("archiveSession", n, changes(dbSessions, n)))

UnarchiveSession(n) ==
    Commit(unarchiveSession(St, n, now),
           Returned("unarchiveSession", n, changes(dbSessions, n)))

DeleteSession(n) ==
    Commit(deleteSession(St, n), Returned("deleteSession", n, changes(dbSessions, n)))

RenameSession(n) ==
    LET r == renameSession(St, n, NewTitle, now)
    IN Commit(r.s, Returned("renameSession", n, IF r.found THEN 1 ELSE 0))

Cleanup == Commit(cleanup(St), Void)

\* message-handler.ts, handleMessage up to its first await: the chat is
\* subscribed to the session named in ctx.session unless it already is
TextReceived(n) ==
    /\ tg.handler = NoName
    /\ CanCreate(n)
    /\ LET r == IF ~isSubscribed(tg) \/ getSessionName(tg) # n
                THEN subscribe(St, tg, n, now)
                ELSE [s |-> St, t |-> tg, inst |-> NoInst, threw |-> FALSE]
       IN IF r.threw THEN CommitWith(r.s, Threw("subscribe", n), r.t)
          ELSE CommitWith(r.s, Returned("subscribe", n, r.inst),
                          [r.t EXCEPT !.handler = n])

\* message-handler.ts, handleMessage after ctx.reply("Thinking...") resolved:
\* startActiveResponse on the placeholder, then the text goes to the session
TextDispatch(content) ==
    /\ tg.handler # NoName
    /\ uuid < MaxRows
    /\ CanCreate(tg.handler)
    /\ LET n == tg.handler
           t == startActiveResponse([tg EXCEPT !.placeholders = @ + 1,
                                               !.handler = NoName],
                                    tg.placeholders + 1)
           g == getOrCreateSession(St, n, "telegram", now)
           r == managedSendMessage(g.s, g.inst, content, "telegram", {}, now)
       IN IF g.threw THEN CommitWith(g.s, Threw("handleMessage", n), t)
          ELSE CommitWith(r.s, IF r.threw THEN Threw("handleMessage", n)
                               ELSE Returned("handleMessage", n, g.inst), t)

\* the Telegram API call that the k-th suspended handler awaits settles
TgFinish(k) ==
    /\ k \in DOMAIN tg.finishing
    /\ tg' = finish(tg, k)
    /\ UNCHANGED <<dbSessions, dbMessages, uuid, now, sessions, clientSessions, ms,
                   agents, broadcasts, activity, ret, monitorUp, steps, conn, mon>>

\* the response timeout of the active response is due
TgTimeout ==
    /\ tg.timeout # NoMessage
    /\ tg' = timeoutFires(tg)
    /\ UNCHANGED <<dbSessions, dbMessages, uuid, now, sessions, clientSessions, ms,
                   agents, broadcasts, activity, ret, monitorUp, steps, conn, mon>>

\* the clock read by new Date() reaches the next millisecond
Tick ==
    /\ now < MaxTick
    /\ now' = now + 1
    /\ UNCHANGED <<dbSessions, dbMessages, uuid, sessions, clientSessions, ms,
                   agents, broadcasts, activity, ret, monitorUp, steps, conn, mon, tg>>

\* logActivity or sendToMonitoringGroup queues a text
QueueMessage ==
    /\ mon.queued < MaxQueued
    /\ mon' = queueMessage(mon)
    /\ UNCHANGED <<dbSessions, dbMessages, uuid, now, sessions, clientSessions, ms,
                   agents, broadcasts, activity, ret, monitorUp, steps, conn, tg>>

\* the flush timer is due and its callback runs
FlushTimer ==
    /\ mon.flushTimeout # NoTimer /\ mon.flushTimeout <= mon.clock
    /\ mon' = flushTimerFires(mon)
    /\ UNCHANGED <<dbSessions, dbMessages, uuid, now, sessions, clientSessions, ms,
                   agents, broadcasts, activity, ret, monitorUp, steps, conn, tg>>

\* an awaited send to the monitoring group settles
FlushSent(ok) ==
    /\ mon.inflight > 0
    /\ mon' = flushSent(mon, ok)
    /\ UNCHANGED <<dbSessions, dbMessages, uuid, now, sessions, clientSessions, ms,
                   agents, broadcasts, activity, ret, monitorUp, steps, conn, tg>>

\* time passes
ClockStep ==
    /\ mon.clock < MIN_FLUSH_INTERVAL + MaxClockSteps * StepMs
    /\ mon' = [mon EXCEPT !.clock = @ + StepMs]
    /\ UNCHANGED <<dbSessions, dbMessages, uuid, now, sessions, clientSessions, ms,
                   agents, broadcasts, activity, ret, monitorUp, steps, conn, tg>>

\* the activity monitor starts or stops failing (its formatting or its queue)
MonitorToggle ==
    /\ monitorUp' = ~monitorUp
    /\ UNCHANGED <<dbSessions, dbMessages, uuid, now, sessions, clientSessions, ms,
                   agents, broadcasts, activity, ret, steps, conn, mon, tg>>

\* a handler calls sendMessage on the AgentSession followed step by step
ConnSend(t) ==
    /\ Len(conn.pushed) < MaxPush
    /\ conn' = connSendMessage(conn, t)
    /\ UNCHANGED <<dbSessions, dbMessages, uuid, now, sessions, clientSessions, ms,
                   agents, broadcasts, activity, ret, monitorUp, steps, mon, tg>>

\* a handler calls close on it
ConnClose ==
    /\ conn' = connClose(conn)
    /\ UNCHANGED <<dbSessions, dbMessages, uuid, now, sessions, clientSessions, ms,
                   agents, broadcasts, activity, ret, monitorUp, steps, mon, tg>>

\* the SDK asks the input queue for the next user turn
QueueNext ==
    /\ conn.iter = "suspended"
    /\ conn' = queueNext(conn)
    /\ UNCHANGED <<dbSessions, dbMessages, uuid, now, sessions, clientSessions, ms,
                   agents, broadcasts, activity, ret, monitorUp, steps, mon, tg>>

\* the microtask that resumes the generator after its promise was resolved
QueueResume ==
    /\ conn.iter = "awaiting" /\ conn.promise = "resolved"
    /\ conn' = queueResume(conn)
    /\ UNCHANGED <<dbSessions, dbMessages, uuid, now, sessions, clientSessions, ms,
                   agents, broadcasts, activity, ret, monitorUp, steps, mon, tg>>

\* the SDK takes the next user turn from the input queue
EngineTake(c) ==
    /\ ~agents[c].closed /\ agents[c].stream = "open" /\ ~agents[c].busy
    /\ agents[c].queue # <<>>
    /\ Commit([St EXCEPT !.agents[c] = engineTake(@)], Void)

\* the SDK's output iterator finishes: next() resolves to done from now on
EngineEnd(c) ==
    /\ agents[c].stream = "open"
    /\ Commit([St EXCEPT !.agents[c] = engineStop(@, "ended")], Void)

\* the SDK's output iterator fails: the pending next() rejects
EngineFail(c) ==
    /\ agents[c].stream = "open"
    /\ Commit([St EXCEPT !.agents[c] = engineStop(@, "failed")], Void)

\* a parked loop's next() resolves to a message: the body of the for await
LoopValue(c, msg, bad) ==
    /\ agents[c].listeners > 0
    /\ msg \in engineMessages(agents[c])
    /\ uuid + texts(msg) <= MaxRows
    /\ LET i == agents[c].owner
           r == handleSDKMessage([St EXCEPT !.agents[c] = emitted(@, msg)], i, msg, bad, now)
           s1 == IF r.threw THEN loopExit(loopCatch(r.s, c, bad), c)
                 ELSE IF r.s.agents[c].closed THEN loopExit(r.s, c)
                 ELSE r.s
       IN Commit(s1, Void)

\* a parked loop's next() resolves to done: the for await ends
LoopDone(c) ==
    /\ agents[c].listeners > 0
    /\ agents[c].stream = "ended"
    /\ Commit(loopExit(St, c), Void)

\* a parked loop's next() rejects: catch, then finally; the iterator is finished
LoopThrow(c, bad) ==
    /\ agents[c].listeners > 0
    /\ agents[c].stream = "failed"
    /\ Commit(loopExit(loopCatch([St EXCEPT !.agents[c].stream = "ended"], c, bad), c),
              Void)

Subs(c) == ms[agents[c].owner].subscribers

\* what the front-ends do with the sessions named in NS: subscribe, leave
ClientStep(NS) ==
    \/ \E c \in Clients, n \in NS : SubscribeClient(c, n)
    \/ \E c \in Clients : UnsubscribeClient(c)

\* the user turns the front-ends send, with every choice of the callbacks that
\* throw during one handler
SendStep(NS) ==
    \/ \E c \in WebClients, t \in Contents :
          \E bad \in BadSets(IF Live(clientSessions[c])
                       THEN ms[sessions[clientSessions[c]]].subscribers ELSE {}) :
             SendMessage(c, t, bad)
    \/ \E n \in NS, t \in Contents :
          \E bad \in BadSets(IF Live(n) THEN ms[sessions[n]].subscribers ELSE {}) :
             TelegramSend(n, t, bad)

\* the administrative calls on the names NS
AdminStep(NS) ==
    \/ \E n \in NS, by \in {"web", "telegram"} : GetOrCreateSession(n, by)
    \/ \E n \in NS : ArchiveSession(n)
    \/ \E n \in NS : UnarchiveSession(n)
    \/ \E n \in NS : DeleteSession(n)
    \/ \E n \in NS : RenameSession(n)
    \/ Cleanup

\* the engine behind connection c is between turns, with nothing left to answer
BetweenTurns(c) == ~agents[c].busy /\ agents[c].queue = <<>>

\* the engines and the listening loops; an engine may stop at any moment when
\* midTurn, else only between turns
EngineStep(midTurn) ==
    \/ \E c \in DOMAIN agents : EngineTake(c)
    \/ \E c \in DOMAIN agents : (midTurn \/ BetweenTurns(c)) /\ EngineEnd(c)
    \/ \E c \in DOMAIN agents : (midTurn \/ BetweenTurns(c)) /\ EngineFail(c)
    \/ \E c \in DOMAIN agents : \E msg \in engineMessages(agents[c]) :
          \E bad \in BadSets(Subs(c)) : LoopValue(c, msg, bad)
    \/ \E c \in DOMAIN agents : LoopDone(c)
    \/ \E c \in DOMAIN agents : \E bad \in BadSets(Subs(c)) : LoopThrow(c, bad)

\* One session name with its front-ends, engines and listening loops.
Next ==
    \/ ClientStep({LongName})
    \/ SendStep({LongName})
    \/ EngineStep(TRUE)

Spec == Init /\ [][Next]_vars

\* The registry under every call of its interface, on both names.
NextRegistry == ClientStep(Names) \/ AdminStep(Names)

SpecRegistry == Init /\ [][NextRegistry]_vars

\* The same session with a fair engine: it stops only between turns, takes
\* every queued turn and ends every turn with a result message; a parked loop
\* is resumed whenever its next() has settled.
NextFair ==
    \/ ClientStep({LongName})
    \/ SendStep({LongName})
    \/ EngineStep(FALSE)

TakeTurn == \E c \in DOMAIN agents : EngineTake(c)

EndTurn ==
    \E c \in DOMAIN agents :
       /\ agents[c].busy
       /\ LoopValue(c, sdkMessage("result", <<>>, "success"), {})

ResumeLoop ==
    \/ \E c \in DOMAIN agents : LoopDone(c)
    \/ \E c \in DOMAIN agents : LoopThrow(c, {})

FairSpec ==
    /\ Init
    /\ [][NextFair]_vars
    /\ WF_vars(TakeTurn)
    /\ WF_vars(EndTurn)
    /\ WF_vars(ResumeLoop)

\* The server starts on a database in which session LongName already holds
\* HistoryLimit messages, written before the clock reading of this run.
InitLong ==
    /\ dbSessions = {sessionRow(0, LongName, "web", 0)}
    /\ dbMessages = [k \in 1..HistoryLimit |->
                       messageRow(k - HistoryLimit - 1, 0,
                                  IF k % 2 = 1 THEN "user" ELSE "assistant",
                                  IF k % 2 = 1 THEN UserText("old") ELSE ReplyText("old", 1),
                                  IF k % 2 = 1 THEN "web" ELSE "agent", 0)]
    /\ uuid = 0
    /\ now = 1
    /\ sessions = [n \in Names |-> NoInst]
    /\ clientSessions = [c \in Clients |-> NoName]
    /\ ms = <<>>
    /\ agents = <<>>
    /\ broadcasts = <<>>
    /\ activity = <<>>
    /\ ret = Void
    /\ monitorUp = TRUE
    /\ steps = <<>>
    /\ mon = newMonitor
    /\ conn = newConnection
    /\ tg = newSubscriptionManager

SpecLong == InitLong /\ [][Next]_vars

\* What the web front-end does with the sessions named in NS, every callback
\* succeeding: subscribe, leave, send a user turn.
WebStep(NS) ==
    \/ \E c \in WebClients, n \in NS : SubscribeClient(c, n)
    \/ \E c \in WebClients : UnsubscribeClient(c)
    \/ \E c \in WebClients, t \in Contents : SendMessage(c, t, {})

\* The web front-end with the sessions it uses being archived and deleted
\* under it, on both names; the engines do not answer.
NextStore ==
    \/ WebStep(Names)
    \/ \E n \in Names : ArchiveSession(n)
    \/ \E n \in Names : DeleteSession(n)

SpecStore == Init /\ [][NextStore]_vars

\* the engines and the listening loops, every callback succeeding
QuietEngineStep ==
    \/ \E c \in DOMAIN agents : EngineTake(c)
    \/ \E c \in DOMAIN agents : EngineEnd(c)
    \/ \E c \in DOMAIN agents : EngineFail(c)
    \/ \E c \in DOMAIN agents : \E msg \in engineMessages(agents[c]) :
          LoopValue(c, msg, {})
    \/ \E c \in DOMAIN agents : LoopDone(c)
    \/ \E c \in DOMAIN agents : LoopThrow(c, {})

\* One session name that the web client opens and writes to, and never
\* leaves, while its engine works and the session is deleted under both.
NextEvict ==
    \/ \E c \in WebClients : SubscribeClient(c, LongName)
    \/ \E c \in WebClients, t \in Contents : SendMessage(c, t, {})
    \/ QuietEngineStep
    \/ DeleteSession(LongName)

SpecEvict == Init /\ [][NextEvict]_vars

\* the SDK ends its output stream once its input, the closed queue, has ended
EngineEndsClosed == \E c \in DOMAIN agents : agents[c].closed /\ EngineEnd(c)

\* a parked loop is resumed once its next() has resolved to done
LoopEnds == \E c \in DOMAIN agents : LoopDone(c)

\* One session name written to from Telegram and archived and deleted at any
\* moment; the engine answers each turn with its result message and ends only
\* after its connection was closed.
NextAbandon ==
    \/ \E t \in Contents : TelegramSend(LongName, t, {})
    \/ ArchiveSession(LongName)
    \/ DeleteSession(LongName)
    \/ \E c \in DOMAIN agents : EngineTake(c)
    \/ \E c \in DOMAIN agents : \E msg \in engineMessages(agents[c]) :
          msg.type = "result" /\ LoopValue(c, msg, {})
    \/ EngineEndsClosed
    \/ LoopEnds

FairAbandon ==
    /\ Init
    /\ [][NextAbandon]_vars
    /\ WF_vars(EngineEndsClosed)
    /\ WF_vars(LoopEnds)

\* One session name used by the web client while the activity monitor fails
\* and recovers at any moment.
NextMonitor ==
    \/ WebStep({LongName})
    \/ QuietEngineStep
    \/ MonitorToggle

SpecMonitor == Init /\ [][NextMonitor]_vars

\* One session name with both front-ends sending short and long texts, the
\* engines answering and stopping; every callback succeeds.
NextSend ==
    \/ \E c \in WebClients : SubscribeClient(c, LongName)
    \/ \E c \in WebClients : UnsubscribeClient(c)
    \/ \E c \in WebClients, t \in AllContents : SendMessage(c, t, {})
    \/ \E t \in AllContents : TelegramSend(LongName, t, {})
    \/ QuietEngineStep

SpecSend == Init /\ [][NextSend]_vars

\* One session name used by both front-ends while it is archived, deleted and
\* swept under them; the engines do not answer.
NextReuse ==
    \/ WebStep({LongName})
    \/ \E t \in Contents : TelegramSend(LongName, t, {})
    \/ ArchiveSession(LongName)
    \/ DeleteSession(LongName)
    \/ Cleanup

SpecReuse == Init /\ [][NextReuse]_vars

\* One session name with the web front-end, the engines and the loops, under a
\* clock that advances between handlers.
NextClock ==
    \/ WebStep({LongName})
    \/ QuietEngineStep
    \/ Tick

SpecClock == Init /\ [][NextClock]_vars

\* One session name under every call of the registry's interface, with the web
\* front-end sending; the engines do not answer.
NextTranscript ==
    \/ WebStep({LongName})
    \/ AdminStep({LongName})

SpecTranscript == Init /\ [][NextTranscript]_vars

\* The batching queue of the activity monitor between its callers, its timer,
\* the Telegram API and the clock.
NextBatch ==
    \/ QueueMessage
    \/ FlushTimer
    \/ \E ok \in BOOLEAN : FlushSent(ok)
    \/ ClockStep

SpecBatch == Init /\ [][NextBatch]_vars

\* One session name that the web client subscribes to and writes to, archived
\* at any moment while its engine answers; every callback succeeds.
NextArchive ==
    \/ \E c \in WebClients : SubscribeClient(c, LongName)
    \/ \E c \in WebClients, t \in Contents : SendMessage(c, t, {})
    \/ QuietEngineStep
    \/ ArchiveSession(LongName)

SpecArchive == Init /\ [][NextArchive]_vars

\* One Telegram chat writing to one session name, which is archived, deleted
\* or cleaned up at any moment.
NextTelegram ==
    \/ TextReceived(LongName)
    \/ \E t \in Contents : TextDispatch(t)
    \/ ArchiveSession(LongName)
    \/ DeleteSession(LongName)
    \/ Cleanup

SpecTelegram == Init /\ [][NextTelegram]_vars

\* One Telegram chat writing to one session name while the engine answers,
\* the Telegram API calls settle and the response timeout runs out.
NextActive ==
    \/ TextReceived(LongName)
    \/ \E t \in Turns : TextDispatch(t)
    \/ QuietEngineStep
    \/ \E k \in 1..MaxRows : TgFinish(k)
    \/ TgTimeout

SpecActive == Init /\ [][NextActive]_vars

\* One AgentSession between its callers and the SDK: sends and closes on one
\* side, the consumption of the input queue on the other.
NextQueue ==
    \/ \E t \in Turns : ConnSend(t)
    \/ ConnClose
    \/ QueueNext
    \/ QueueResume

SpecQueue == Init /\ [][NextQueue]_vars

----------------------------------------------------------------------------
(* Claims *)

\* the listening loops of ManagedSession i: the connections it ever owned on
\* whose output stream a loop is parked
loopsOf(i) == {c \in DOMAIN agents : agents[c].owner = i /\ agents[c].listeners > 0}

\* the broadcast calls of the last handler that report a message row
messageCalls == SelectSeq(broadcasts,
                          LAMBDA b : b.ev.type \in {"user_message", "assistant_message"})

\* the rows the last step appended to the table
appended == SubSeq(dbMessages', Len(dbMessages) + 1, Len(dbMessages'))

\* the rows of the session with id sid, in table order
transcript(sid) == SelectSeq(dbMessages, LAMBDA r : r.session_id = sid)

\* C1: while a Managed Session for a name is in the registry, every
\* getOrCreateSession or subscribeClient call on that name, from either
\* front-end, returns that very instance and constructs no other one.
C1_SameInstance ==
    [][\A n \in Names :
          (Live(n) /\ ret'.op \in {"getOrCreateSession", "subscribeClient"} /\ ret'.name = n)
          => /\ ~ret'.threw
             /\ ret'.val = sessions[n]
             /\ sessions'[n] = sessions[n]
             /\ Len(ms') = Len(ms)]_vars

\* C1 witness: getOrCreateSession has returned an instance that already has a
\* subscriber, so it is an instance an earlier call created.
C1_Witness ==
    /\ ret.op = "getOrCreateSession" /\ ~ret.threw
    /\ ret.val = sessions[ret.name]
    /\ ms[ret.val].subscribers # {}

\* C2: no Managed Session ever has more than one listening loop, and its
\* isListening flag is set exactly while it has one.
C2_OneLoop ==
    \A i \in DOMAIN ms :
       /\ Cardinality(loopsOf(i)) <= 1
       /\ \A c \in loopsOf(i) : agents[c].listeners = 1
       /\ ms[i].isListening <=> loopsOf(i) # {}

\* C2 witness: a second sendMessage arrived while the loop was listening (two
\* turns are queued), and one loop is parked.
C2_Witness ==
    \E i \in DOMAIN ms :
       /\ ms[i].isListening
       /\ loopsOf(i) = {ms[i].agentSession}
       /\ Len(agents[ms[i].agentSession].queue) >= 2

\* C5: when a Managed Session is Idle after its loop ended on an engine stream
\* that is finished (ended or failed), the next accepted sendMessage replaces
\* the Engine Connection by a fresh one whose engine is live.
C5_RecoveryOnNextSend ==
    [][\A i \in DOMAIN ms :
          (/\ ~ms[i].isListening
           /\ agents[ms[i].agentSession].stream # "open"
           /\ \E k \in DOMAIN dbMessages :
                 dbMessages[k].session_id = ms[i].sessionId /\ dbMessages[k].role = "user"
           /\ ret'.op = "sendMessage" /\ ~ret'.threw /\ ret'.val = i)
          => /\ ms'[i].agentSession # ms[i].agentSession
             /\ agents'[ms'[i].agentSession].stream = "open"
             /\ ~agents'[ms'[i].agentSession].closed]_vars

\* C6: every sendMessage call that returns is eventually followed by the
\* broadcast of a result or an error event.
C6_TurnAnswered ==
    (ret.op = "sendMessage" /\ ~ret.threw)
    ~> (\E k \in DOMAIN broadcasts : broadcasts[k].ev.type \in {"result", "error"})

\* C7: whenever a subscriber callback is invoked with a user_message or an
\* assistant_message event, the row holding that message is already in the
\* table, under the id the event reports and for the session of the event.
C7_PersistBeforeFanOut ==
    \A k \in DOMAIN messageCalls :
       messageCalls[k].to # <<>> => messageCalls[k].stored > 0

\* C7 witness: an assistant_message reached a subscriber, and so did a
\* user_message in some handler before it (the user row precedes it).
C7_Witness ==
    \E k \in DOMAIN messageCalls :
       /\ messageCalls[k].ev.type = "assistant_message"
       /\ messageCalls[k].to # <<>>
       /\ messageCalls[k].stored > 1

\* C8: a subscriber that fetches the history of its session right after a
\* user_message or assistant_message callback finds the reported row in it.
C8_HistoryHasBroadcast ==
    \A k \in DOMAIN messageCalls :
       \A j \in DOMAIN messageCalls[k].to :
          LET history == getSessionMessages(dbMessages, dbSessions,
                                            ms[messageCalls[k].inst].sessionName)
          IN \E h \in DOMAIN history : history[h].id = messageCalls[k].rid

\* C9: in every session's transcript a first delta has the user message it
\* answers before it, and a later delta directly follows, among the assistant
\* rows, the delta the engine emitted just before it; every message broadcast
\* reports the row that is the newest of the table at that moment, so the
\* broadcasts come in the order of the appends.
C9_Order ==
    /\ \A s \in dbSessions :
          LET tr == transcript(s.id)
              asst == SelectSeq(tr, LAMBDA r : r.role = "assistant")
          IN /\ \A k \in DOMAIN tr :
                   (tr[k].role = "assistant" /\ tr[k].content.n = 1)
                   => \E j \in 1..(k - 1) :
                         tr[j].role = "user" /\ tr[j].content.txt = tr[k].content.txt
             /\ \A k \in DOMAIN asst :
                   asst[k].content.n > 1
                   => /\ k > 1
                      /\ asst[k - 1].content = [asst[k].content EXCEPT !.n = @ - 1]
             /\ \A k \in DOMAIN tr :
                   Len(SelectSeq(SubSeq(tr, 1, k),
                                 LAMBDA r : r.role = "assistant" /\ r.content.n = 1))
                   <= Len(SelectSeq(SubSeq(tr, 1, k), LAMBDA r : r.role = "user"))
    /\ \A k \in DOMAIN messageCalls :
          /\ messageCalls[k].stored = messageCalls[k].rows
          /\ k > 1 => messageCalls[k - 1].stored < messageCalls[k].stored

\* C9 witness: one engine message with two text blocks was handled; both deltas
\* are in the transcript after the user message and were broadcast in turn.
C9_Witness ==
    /\ Len(messageCalls) = 2
    /\ messageCalls[1].ev.content.n = 1 /\ messageCalls[2].ev.content.n = 2
    /\ messageCalls[2].to # <<>>
    /\ dbMessages[messageCalls[2].stored].content.n = 2

\* C10: a sendMessage call that returns appends exactly one row, the user row
\* with its content; any other step appends one assistant row for each text
\* delta the engine emitted in it, and nothing else.
C10_OneRowPerMessage ==
    [][/\ Len(dbMessages') >= Len(dbMessages)
       /\ SubSeq(dbMessages', 1, Len(dbMessages)) = dbMessages
       /\ (ret'.op = "sendMessage" /\ ~ret'.threw)
          => /\ Len(appended) = 1
             /\ appended[1].role = "user"
             /\ appended[1].session_id = ms'[ret'.val].sessionId
             /\ \E t \in Contents : appended[1].content = UserText(t)
       /\ (ret'.op = "sendMessage" /\ ret'.threw) => Len(appended) = 0
       /\ ret'.op # "sendMessage"
          => /\ \A k \in DOMAIN appended : appended[k].role = "assistant"
             /\ \/ /\ Len(appended) = 0
                   /\ \A c \in DOMAIN agents : agents'[c].n <= agents[c].n
                \/ \E c \in DOMAIN agents :
                      /\ agents'[c].n = agents[c].n + Len(appended)
                      /\ \A k \in DOMAIN appended :
                            appended[k].content = ReplyText(agents[c].re, agents[c].n + k)
      ]_vars

\* C10 witness: a transcript with two user rows and a delta, each stored once.
C10_Witness ==
    /\ Len(SelectSeq(dbMessages, LAMBDA r : r.role = "user")) = 2
    /\ Len(SelectSeq(dbMessages, LAMBDA r : r.role = "assistant")) = 1
    /\ \A j, k \in DOMAIN dbMessages : dbMessages[j].id = dbMessages[k].id => j = k

\* the clients a broadcast call invoked
receivers(call) == {call.to[k] : k \in DOMAIN call.to}

\* the subscribers of ManagedSession i before the step (none if the step
\* constructs it)
subscribersBefore(i) == IF i \in DOMAIN ms THEN ms[i].subscribers ELSE {}

\* the listening loops of ManagedSession i after the step
loopsAfter(i) ==
    {c \in DOMAIN agents' : agents'[c].owner = i /\ agents'[c].listeners > 0}

\* the user_message broadcast calls of the step
userCalls == SelectSeq(broadcasts', LAMBDA b : b.ev.type = "user_message")

\* C11: a sendMessage that returns makes one user_message broadcast on its
\* session; that call invokes the callback of every client subscribed to the
\* session at that moment, each exactly once, with the content and the source
\* of the stored user row, whichever front-end the client or the sender is of.
C11_UserMessageToAll ==
    [][(ret'.op = "sendMessage" /\ ~ret'.threw)
       => /\ Len(userCalls) = 1
          /\ userCalls[1].inst = ret'.val
          /\ receivers(userCalls[1]) = subscribersBefore(ret'.val)
          /\ \A j, k \in DOMAIN userCalls[1].to :
                userCalls[1].to[j] = userCalls[1].to[k] => j = k
          /\ Len(appended) = 1
          /\ userCalls[1].ev.content = appended[1].content
          /\ userCalls[1].ev.source = appended[1].source
          /\ \E t \in Contents : userCalls[1].ev.content = UserText(t)]_vars

\* C11 witness: a message sent from the web front-end was broadcast to the
\* sender and to the subscribed Telegram client.
C11_Witness ==
    /\ ret.op = "sendMessage" /\ ~ret.threw
    /\ \E k \in DOMAIN broadcasts :
          /\ broadcasts[k].ev.type = "user_message"
          /\ broadcasts[k].ev.source = "web"
          /\ receivers(broadcasts[k]) = Clients

\* C12: in every broadcast call of a step the callbacks invoked are those of
\* all subscribers the session had before the step less the ones that threw in
\* an earlier call of the step; after the step the session's subscribers are
\* the former ones less every one that threw; a sendMessage in which a
\* callback threw still returns with the text queued for the engine, and a
\* loop in whose handler a callback threw stays parked.
C12_ThrowingSubscriber ==
    [][\A k \in DOMAIN broadcasts' :
          LET b == broadcasts'[k]
              i == b.inst
              earlier == UNION {broadcasts'[j].threw : j \in 1..(k - 1)}
              all == UNION {broadcasts'[j].threw : j \in DOMAIN broadcasts'}
          IN /\ receivers(b) = subscribersBefore(i) \ earlier
             /\ b.threw \subseteq receivers(b)
             /\ ms'[i].subscribers = subscribersBefore(i) \ all
             /\ (all # {} /\ ret'.op = "sendMessage")
                => /\ ~ret'.threw
                   /\ agents'[ms'[i].agentSession].queue # <<>>
             /\ (all # {} /\ b.ev.type \in {"assistant_message", "tool_use", "result"})
                => loopsAfter(i) = loopsOf(i)]_vars

\* C12 witness: the first subscriber of a broadcast call threw, the second one
\* was still invoked in that call, and only the second is subscribed now.
C12_Witness ==
    \E k \in DOMAIN broadcasts :
       /\ Len(broadcasts[k].to) = 2
       /\ broadcasts[k].threw = {broadcasts[k].to[1]}
       /\ ms[broadcasts[k].inst].subscribers = {broadcasts[k].to[2]}

\* C13: after every subscribeClient(c, n) that returns, the client-to-session
\* map points c at n and c is a subscriber of the registered Managed Session
\* of n, which is the one returned; when c was already subscribed to n, the
\* call constructs nothing and leaves the registry, the map and every
\* subscriber set as they were, so the repeated call adds no second entry.
C13_SubscribeTwice ==
    [][\A c \in Clients, n \in Names :
          (SubscribeClient(c, n) /\ ~ret'.threw)
          => /\ clientSessions'[c] = n
             /\ sessions'[n] = ret'.val
             /\ c \in ms'[ret'.val].subscribers
             /\ (/\ clientSessions[c] = n
                 /\ Live(n)
                 /\ c \in ms[sessions[n]].subscribers)
                => /\ ms' = ms
                   /\ agents' = agents
                   /\ sessions' = sessions
                   /\ clientSessions' = clientSessions
                   /\ dbSessions' = dbSessions]_vars

\* C13 witness: subscribeClient has returned on a name whose Managed Session
\* has the client as its only subscriber and the map points the client at
\* that name: the state after the first call and after its repetition.
C13_Witness ==
    /\ ret.op = "subscribeClient" /\ ~ret.threw
    /\ Len(ms) = 1
    /\ \E c \in Clients :
          /\ clientSessions[c] = ret.name
          /\ ms[sessions[ret.name]].subscribers = {c}

\* C16: a cleanup() call closes the connection of every registered Managed
\* Session that has no subscriber and removes it from the registry, and leaves
\* the others registered and open; a getOrCreateSession on the name of a
\* removed one, made in the state cleanup() left, returns a Managed Session
\* constructed by that call, with a connection constructed by it and open.
C16_CleanupThenFresh ==
    [][Cleanup
       => \A n \in Names :
             Live(n)
             => IF hasSubscribers(ms[sessions[n]])
                THEN /\ sessions'[n] = sessions[n]
                     /\ ~agents'[ms[sessions[n]].agentSession].closed
                ELSE /\ sessions'[n] = NoInst
                     /\ agents'[ms[sessions[n]].agentSession].closed
                     /\ \A by \in {"web", "telegram"} :
                           LET r == getOrCreateSession(St', n, by, now)
                           IN /\ ~r.threw
                              /\ r.inst \notin DOMAIN ms
                              /\ r.s.sessions[n] = r.inst
                              /\ r.s.ms[r.inst].agentSession \notin DOMAIN agents
                              /\ ~r.s.agents[r.s.ms[r.inst].agentSession].closed]_vars

\* C17: every Managed Session in the registry wraps a session row that the
\* store holds and does not record as archived.
C17_RegistryOnlyActive ==
    \A n \in Names :
       Live(n) => \E r \in dbSessions : r.id = ms[sessions[n]].sessionId /\ ~r.archived

\* the one client that sends through SessionManager.sendMessage
Sender == CHOOSE c \in WebClients : TRUE

\* C15: SessionManager.sendMessage throws only when the client has no entry in
\* the client-to-session map; with an entry it returns, having stored the user
\* row and queued the text on the session's connection; a call that throws
\* stores no row and broadcasts nothing.
C15_SendFailsOnlyUnsubscribed ==
    [][ret'.op = "sendMessage"
       => /\ ret'.threw <=> clientSessions[Sender] = NoName
          /\ ret'.threw => /\ dbMessages' = dbMessages
                           /\ broadcasts' = <<>>
          /\ ~ret'.threw
             => /\ Len(appended) = 1
                /\ appended[1].role = "user"
                /\ agents'[ms'[ret'.val].agentSession].queue # <<>>]_vars

\* C18: a sendMessage on a registered Managed Session whose user row the
\* store refuses (its session row is gone, so the foreign key fails) throws to
\* its caller, and the step broadcasts nothing, emits no activity event,
\* queues nothing on any connection, starts no loop and stores nothing.
C18_PersistFailurePropagates ==
    [][\A n \in Names :
          (/\ ret'.op = "sendMessage" /\ ret'.name = n
           /\ Live(n)
           /\ messageCreateThrows(dbSessions, ms[sessions[n]].sessionId))
          => /\ ret'.threw
             /\ broadcasts' = <<>>
             /\ activity' = <<>>
             /\ agents' = agents
             /\ ms' = ms
             /\ dbMessages' = dbMessages]_vars

\* C18 witness: sendMessage has thrown on a session that is registered and
\* whose row the store no longer holds.
C18_Witness ==
    /\ ret.op = "sendMessage" /\ ret.threw
    /\ Live(ret.name)
    /\ messageCreateThrows(dbSessions, ms[sessions[ret.name]].sessionId)
    /\ broadcasts = <<>> /\ activity = <<>>

\* the handler of engine message msg on connection c throws: it has a text
\* delta to store and the store refuses the row
handlerThrows(c, msg) ==
    /\ msg.type = "assistant"
    /\ msg.blocks # <<>>
    /\ msg.blocks[1].type = "text"
    /\ messageCreateThrows(dbSessions, ms[agents[c].owner].sessionId)

\* the listening loop on connection c catches an exception in this step: its
\* next() rejects, or the handler of the value it resolved to throws
LoopCatches(c) ==
    \/ LoopThrow(c, {})
    \/ \E msg \in engineMessages(agents[c]) : handlerThrows(c, msg) /\ LoopValue(c, msg, {})

\* C19: a step in which a listening loop catches an exception, from the read
\* of the engine stream or from the handler of an engine event whose delta the
\* store refuses, makes exactly one error broadcast on the loop's session, as
\* the last broadcast of the step, emits exactly one activity event of type
\* error for that session, leaves the loop ended and the session Idle, and
\* throws nothing to any caller.
C19_LoopCatchesAll ==
    [][\A c \in DOMAIN agents :
          LoopCatches(c)
          => LET i == agents[c].owner
                 errors == SelectSeq(broadcasts', LAMBDA b : b.ev.type = "error")
                 errorActs == SelectSeq(activity', LAMBDA a : a.type = "error")
             IN /\ Len(errors) = 1
                /\ errors[1].inst = i
                /\ broadcasts'[Len(broadcasts')] = errors[1]
                /\ receivers(errors[1]) = ms[i].subscribers
                /\ Len(errorActs) = 1
                /\ errorActs[1].sessionId = ms[i].sessionId
                /\ agents'[c].listeners = 0
                /\ ~ms'[i].isListening
                /\ ret' = Void]_vars

\* C19 witness: a loop has caught an exception: the error event went to the
\* subscribed client, the activity error was emitted, and the session, still
\* registered, is Idle.
C19_Witness ==
    /\ Len(broadcasts) = 1 /\ Len(activity) = 1
    /\ broadcasts[1].ev.type = "error"
    /\ broadcasts[1].to # <<>>
    /\ activity[1].type = "error"
    /\ \E n \in Names : sessions[n] = broadcasts[1].inst
    /\ ~ms[broadcasts[1].inst].isListening
    /\ ret = Void

\* the Managed Sessions, registered or abandoned with a loop still parked,
\* whose subscriber map holds client c
subscribedTo(c) == {i \in DOMAIN ms : c \in ms[i].subscribers}

\* C14: a client is in the subscriber map of at most one Managed Session, and
\* every callback a broadcast invokes belongs to a client whose entry in the
\* client-to-session map names the session whose registered Managed Session
\* is the broadcasting one.
C14_OneSubscription ==
    /\ \A c \in Clients : Cardinality(subscribedTo(c)) <= 1
    /\ \A k \in DOMAIN broadcasts :
          \A c \in receivers(broadcasts[k]) :
             /\ clientSessions[c] # NoName
             /\ sessions[clientSessions[c]] = broadcasts[k].inst

\* ManagedSession i is out of the registry and a listening loop of it is
\* still parked on the engine's output stream
Abandoned(i) == (\A n \in Names : sessions[n] # i) /\ loopsOf(i) # {}

allDeltasStored ==
    \A c \in DOMAIN agents :
       agents'[c].n > agents[c].n => Len(appended) = agents'[c].n - agents[c].n

\* C21: a handler that emits activity events, whether or not the monitor fails
\* on them, completes as if nothing had failed: a sendMessage returns with one
\* more text queued on the session's connection and the session Listening; a
\* loop that emitted a tool_use activity event stores every delta of the engine
\* message it was handling and stays parked.
C21_MonitorFailureIsolated ==
    [][\A k \in DOMAIN activity' :
          LET a == activity'[k]
              i == CHOOSE j \in DOMAIN ms' : ms'[j].sessionId = a.sessionId
          IN /\ (monitorUp' = monitorUp /\ a.type = "message")
                => /\ ret'.op = "sendMessage" /\ ~ret'.threw /\ ret'.val = i
                   /\ Len(agents'[ms'[i].agentSession].queue)
                        = 1 + (IF i \in DOMAIN ms
                               THEN Len(agents[ms[i].agentSession].queue) ELSE 0)
                   /\ ms'[i].isListening
                   /\ loopsAfter(i) = {ms'[i].agentSession}
             /\ (monitorUp' = monitorUp /\ a.type = "tool_use")
                => /\ allDeltasStored
                   /\ loopsAfter(i) = loopsOf(i)
                   /\ loopsAfter(i) # {}]_vars

\* C21 witness: the monitor failed on the activity event of a sendMessage,
\* which has returned with the text queued and the loop parked.
C21_Witness ==
    /\ ret.op = "sendMessage" /\ ~ret.threw
    /\ Len(activity) = 1 /\ activity[1].type = "message" /\ activity[1].rejected
    /\ agents[ms[ret.val].agentSession].queue # <<>>
    /\ loopsOf(ret.val) # {}

\* C22: in every state and for every name, sessionRepo.getOrCreateByName
\* succeeds, a second call right after it succeeds too and returns the row the
\* first one returned, and the second call adds no row.
C22_GetOrCreateIdempotent ==
    \A n \in Names, by \in {"web", "telegram"} :
       LET id1 == Len(ms) + 1
           id2 == Len(ms) + 2
           row1 == getOrCreateByNameRow(dbSessions, n, by, id1, now)
           tbl1 == getOrCreateByName(dbSessions, n, by, id1, now)
       IN /\ ~getOrCreateByNameThrows(dbSessions, n)
          /\ ~getOrCreateByNameThrows(tbl1, n)
          /\ getOrCreateByNameRow(tbl1, n, by, id2, now) = row1
          /\ getOrCreateByName(tbl1, n, by, id2, now) = tbl1

\* C23: archiveSession, unarchiveSession, renameSession and deleteSession
\* never throw; each returns true exactly when the store holds a session row
\* with the given name, and when it holds none the sessions and the messages
\* of the store are left as they were.
C23_NotFoundIsFalse ==
    [][\A n \in Names :
          (/\ ret'.op \in {"archiveSession", "unarchiveSession", "renameSession",
                            "deleteSession"}
           /\ ret'.name = n)
          => /\ ~ret'.threw
             /\ ret'.val = 1 <=> (\E r \in dbSessions : r.name = n)
             /\ ret'.val \in {0, 1}
             /\ (~\E r \in dbSessions : r.name = n)
                => dbSessions' = dbSessions /\ dbMessages' = dbMessages]_vars

\* C23 witness: a call on a name under which the store holds no row has
\* returned false while the store holds a session (under another name).
C23_Witness ==
    /\ ret.op \in {"archiveSession", "renameSession", "deleteSession"}
    /\ ~ret.threw /\ ret.val = 0
    /\ dbSessions # {}
    /\ \A r \in dbSessions : r.name # ret.name /\ ~r.archived /\ r.title = NoTitle

\* C24: sendMessage on an AgentSession that is already closed fails with an
\* error its caller sees; it never returns normally having discarded the text.
C24_ClosedSendThrows ==
    [][\A t \in Turns : (conn.closed /\ ConnSend(t)) => conn'.ret.threw]_vars

\* the turns the queue still owes the consumer: the one a resolved promise
\* carries, then the queued ones
owed == (IF conn.promise = "resolved" THEN <<conn.val>> ELSE <<>>) \o conn.messages

\* C26: on an open MessageQueue, whatever the interleaving of pushes and
\* pulls, the consumer is handed exactly the pushed turns, each once and in
\* push order: what it received, followed by what the queue still holds, is
\* the sequence of pushes, and a push that finds the consumer waiting hands
\* it that very turn.
C26_QueueIsFifo ==
    /\ ~conn.qclosed => conn.pushed = conn.received \o owed
    /\ (~conn.qclosed /\ conn.iter = "awaiting" /\ conn.promise = "pending")
          => conn.messages = <<>> /\ conn.waiting /\ conn.received = conn.pushed

\* two different turns were received in push order, one of them by a consumer
\* that was waiting, while a third is still queued
C26_Witness ==
    /\ ~conn.qclosed
    /\ Len(conn.received) = 2 /\ conn.received[1] # conn.received[2]
    /\ conn.messages # <<>>
    /\ conn.pushed = conn.received \o conn.messages

\* C27: close() marks the AgentSession and its queue closed and resolves the
\* promise a waiting consumer is suspended on; every pull made after close
\* ends the iteration; a second close() changes nothing and does not throw.
C27_CloseResumesAndEnds ==
    [][/\ ConnClose =>
            /\ conn'.closed /\ conn'.qclosed /\ ~conn'.ret.threw
            /\ (conn.iter = "awaiting" /\ conn.promise = "pending")
                  => conn'.promise = "resolved"
            /\ conn.closed => conn' = [conn EXCEPT !.ret = conn'.ret]
       /\ (conn.qclosed /\ QueueNext) => conn'.iter = "done"
       /\ (conn.qclosed /\ QueueResume) => conn'.iter = "suspended"
       /\ conn.closed => conn'.closed /\ conn'.qclosed]_vars

\* the consumer was waiting when close() was called, was resumed, pulled again
\* and found the iteration ended; close() was then called once more
C27_Witness ==
    /\ conn.closed /\ conn.iter = "done" /\ conn.ret.op = "close"
    /\ conn.received # <<>> /\ conn.received[Len(conn.received)] = Dummy

\* a front-end hands a user turn to a session
Sending ==
    \/ \E c \in WebClients, t \in Contents : SendMessage(c, t, {})
    \/ \E n \in Names, t \in Contents : TelegramSend(n, t, {})

\* C25: a closed AgentSession is never reused: after every step each
\* ManagedSession in the registry holds an AgentSession that is not closed,
\* and a user turn that is sent goes to an AgentSession that was not closed
\* before the call and is not closed after it, where it is queued.
C25_ClosedNeverReused ==
    [][/\ \A n \in Names :
             sessions'[n] # NoInst => ~agents'[ms'[sessions'[n]].agentSession].closed
       /\ (Sending /\ ~ret'.threw) =>
             LET i == ret'.val
                 a == ms'[i].agentSession
             IN /\ ~agents'[a].closed
                /\ i \in DOMAIN ms =>
                      /\ ms[i].agentSession = a
                      /\ ~agents[a].closed
                      /\ Len(agents'[a].queue) = Len(agents[a].queue) + 1
                /\ i \notin DOMAIN ms => Len(agents'[a].queue) = 1]_vars

\* an evicted instance with its closed AgentSession is still around, and the
\* turn just sent went to the open AgentSession of the instance that replaced it
C25_Witness ==
    /\ ret.op = "sendMessage" /\ ~ret.threw
    /\ \E c \in DOMAIN agents : agents[c].closed /\ agents[c].queue # <<>>
    /\ sessions[LongName] = ret.val
    /\ ~agents[ms[ret.val].agentSession].closed
    /\ agents[ms[ret.val].agentSession].queue # <<>>

\* a front-end hands a user turn, short or long, to a session
SendingAny ==
    \/ \E c \in WebClients, t \in AllContents : SendMessage(c, t, {})
    \/ \E n \in Names, t \in AllContents : TelegramSend(n, t, {})

\* C28: one sendMessage call appends the user message, then broadcasts
\* user_message, then emits the `message` activity event, then sends the text
\* to the AgentSession, and starts the listening loop last and only if the
\* session was not listening; the row stored holds the whole content, the
\* activity summary its first SummaryLimit characters.
C28_SendMessageOrder ==
    [][(SendingAny /\ ~ret'.threw) =>
          LET i == ret'.val
              wasListening == i \in DOMAIN ms /\ ms[i].isListening
              row == dbMessages'[Len(dbMessages')]
              ev == activity'[1]
          IN /\ steps' = <<"append", "broadcast", "activity", "send">>
                           \o (IF wasListening THEN <<>> ELSE <<"listen">>)
             /\ Len(broadcasts') = 1 /\ Len(activity') = 1
             /\ broadcasts'[1].ev.type = "user_message"
             /\ broadcasts'[1].stored = Len(dbMessages')
             /\ broadcasts'[1].ev.content = row.content
             /\ row.role = "user"
             /\ Len(dbMessages') = Len(dbMessages) + 1
             /\ ev.type = "message"
             /\ ev.summary.text = row.content.txt
             /\ ev.summary.kept
                  = (IF textLength(row.content.txt) < SummaryLimit
                     THEN textLength(row.content.txt) ELSE SummaryLimit)
             /\ agents'[ms'[i].agentSession].queue # <<>>
             /\ agents'[ms'[i].agentSession].queue[Len(agents'[ms'[i].agentSession].queue)]
                  = row.content.txt]_vars

\* a long text was sent to a session that was listening already: it is stored
\* whole, its summary is cut, and no loop was started
C28_Witness ==
    /\ ret.op = "sendMessage" /\ ~ret.threw
    /\ steps = <<"append", "broadcast", "activity", "send">>
    /\ dbMessages[Len(dbMessages)].content.txt = LongText
    /\ activity[1].summary.kept = SummaryLimit
    /\ activity[1].summary.kept < textLength(LongText)
    /\ loopsOf(ret.val) # {}

\* the tool_use content blocks of an engine message
toolUses(msg) == Len(SelectSeq(msg.blocks, LAMBDA b : b.type = "tool_use"))

\* C29: handling a tool invocation or a turn result leaves the transcript as
\* it is: each tool_use block makes one tool_use broadcast, reporting no row,
\* and one tool_use activity event; a result message makes one `result`
\* broadcast and nothing else; rows are added for text blocks only, and no
\* stored row or session changes.
C29_ToolAndResultOnlyObserved ==
    [][\A c \in DOMAIN agents : \A msg \in engineMessages(agents[c]) :
          \A bad \in BadSets(Subs(c)) :
             (ret' = Void /\ LoopValue(c, msg, bad)) =>
                LET bt == SelectSeq(broadcasts', LAMBDA b : b.ev.type = "tool_use")
                    at == SelectSeq(activity', LAMBDA a : a.type = "tool_use")
                IN /\ msg.type = "result" =>
                         /\ dbMessages' = dbMessages /\ dbSessions' = dbSessions
                         /\ Len(broadcasts') = 1 /\ broadcasts'[1].ev.type = "result"
                         /\ broadcasts'[1].rid = 0
                         /\ activity' = <<>>
                         /\ steps' = <<"broadcast">>
                   /\ msg.type = "assistant" =>
                         /\ Len(bt) = toolUses(msg) /\ Len(at) = toolUses(msg)
                         /\ \A k \in DOMAIN bt : bt[k].rid = 0 /\ bt[k].stored = 0
                         /\ Len(broadcasts') = toolUses(msg) + texts(msg)
                         /\ Len(activity') = toolUses(msg)
                         /\ Len(dbMessages') = Len(dbMessages) + texts(msg)
                         /\ SubSeq(dbMessages', 1, Len(dbMessages)) = dbMessages
                   /\ (msg.type = "assistant" /\ texts(msg) = 0) =>
                         /\ dbMessages' = dbMessages /\ dbSessions' = dbSessions
                         /\ steps' = <<"broadcast", "activity">>]_vars

\* a tool invocation was handled for a session with a stored user message and
\* a subscriber: one broadcast, one activity event, no row reported
C29_Witness ==
    /\ steps = <<"broadcast", "activity">>
    /\ Len(broadcasts) = 1 /\ broadcasts[1].ev.type = "tool_use"
    /\ broadcasts[1].to # <<>> /\ broadcasts[1].rid = 0
    /\ Len(activity) = 1 /\ activity[1].type = "tool_use"
    /\ dbMessages # <<>>

\* C30: cleanup() leaves every registered ManagedSession that has a subscriber
\* as it is: it stays registered under its name, its AgentSession is the same
\* and stays as it was (not closed), its subscribers and its listening flag do
\* not change; and clientSessions does not change.
C30_CleanupSparesSubscribed ==
    [][Cleanup =>
          /\ clientSessions' = clientSessions
          /\ \A n \in Names :
                (sessions[n] # NoInst /\ ms[sessions[n]].subscribers # {}) =>
                   LET i == sessions[n]
                       a == ms[i].agentSession
                   IN /\ sessions'[n] = i
                      /\ ms'[i] = ms[i]
                      /\ agents'[a] = agents[a]
                      /\ ~agents'[a].closed]_vars

\* a sweep has run over a session that has a subscriber and a parked loop, and
\* left it registered and open; an instance evicted earlier is closed
C30_Witness ==
    /\ ret = Void
    /\ clientSessions["web-1"] = LongName
    /\ sessions[LongName] # NoInst
    /\ ms[sessions[LongName]].subscribers = {"web-1"}
    /\ ms[sessions[LongName]].isListening
    /\ ~agents[ms[sessions[LongName]].agentSession].closed
    /\ \E c \in DOMAIN agents : agents[c].closed /\ agents[c].listeners > 0

\* C31: within a session the timestamps of the messages strictly increase in
\* append order, and getMessages returns the messages in the order they were
\* appended.
C31_TimestampsIncrease ==
    \A s \in dbSessions :
       LET tr == transcript(s.id)
       IN /\ \A k \in 1..(Len(tr) - 1) : tr[k].timestamp < tr[k + 1].timestamp
          /\ getSessionMessages(dbMessages, dbSessions, s.name) = firstRows(tr, HistoryLimit)

\* C32: the transcript is append-only: a step that is not a deleteSession
\* leaves every stored message row in place and as it was, only adding rows
\* after them; so do archiveSession, unarchiveSession, renameSession, cleanup,
\* subscribeClient and unsubscribeClient, which add none.
C32_AppendOnly ==
    [][/\ ret'.op # "deleteSession" =>
             /\ Len(dbMessages') >= Len(dbMessages)
             /\ SubSeq(dbMessages', 1, Len(dbMessages)) = dbMessages
       /\ (\/ ret'.op \in {"archiveSession", "unarchiveSession", "renameSession",
                           "subscribeClient", "getOrCreateSession"}
           \/ Cleanup
           \/ \E c \in Clients : UnsubscribeClient(c)) => dbMessages' = dbMessages]_vars

\* a session that has messages was archived, and they are all still stored
C32_Witness ==
    /\ ret.op = "archiveSession" /\ ret.val = 1
    /\ \E s \in dbSessions : s.name = ret.name /\ s.archived /\ Len(transcript(s.id)) >= 2

\* C33: the batching queue never starts two sends to the monitoring group
\* less than MIN_FLUSH_INTERVAL apart.
C33_FlushesApart ==
    \A k \in 1..(Len(mon.starts) - 1) :
       mon.starts[k + 1] - mon.starts[k] >= MIN_FLUSH_INTERVAL

\* C34: whenever clientSessions says client c is on session n and a
\* ManagedSession for n is in the registry, c is one of its subscribers.
C34_BookkeepingConsistent ==
    \A c \in Clients :
       LET n == clientSessions[c]
       IN (n # NoName /\ sessions[n] # NoInst) => c \in ms[sessions[n]].subscribers

\* C35: no two entries of the registry wrap the same stored session: the
\* ManagedSessions registered under two different names have different
\* sessionIds.
C35_OneInstancePerStoredSession ==
    \A n1, n2 \in Names :
       (n1 # n2 /\ sessions[n1] # NoInst /\ sessions[n2] # NoInst)
       => ms[sessions[n1]].sessionId # ms[sessions[n2]].sessionId

\* C36: a ManagedSession that was closed appends no further assistant message
\* and invokes no subscriber callback: a loop step on a closed AgentSession
\* leaves the transcript as it is and every broadcast it makes reaches nobody.
C36_ClosedSessionSilent ==
    [][\A c \in DOMAIN agents :
          (agents[c].closed /\ agents[c].listeners > 0) =>
             /\ \A msg \in engineMessages(agents[c]) :
                   LoopValue(c, msg, {}) =>
                      /\ dbMessages' = dbMessages
                      /\ \A k \in DOMAIN broadcasts' : broadcasts'[k].to = <<>>
             /\ LoopThrow(c, {}) =>
                   \A k \in DOMAIN broadcasts' : broadcasts'[k].to = <<>>]_vars

\* C37: the input queue hands the engine only user turns that were given to
\* sendMessage, each at most once and in order, and no element once close()
\* was called: what the consumer received is always a prefix of what was
\* pushed, and a step taken on a closed connection hands it nothing.
C37_OnlySentTurns ==
    [][/\ Len(conn'.received) <= Len(conn'.pushed)
       /\ conn'.received = SubSeq(conn'.pushed, 1, Len(conn'.received))
       /\ conn.closed => conn'.received = conn.received]_vars

\* C38: whenever the Telegram text handler hands a user's text to a session,
\* the chat's client is a subscriber of the ManagedSession that receives it,
\* also when that ManagedSession was evicted and created again since the chat
\* subscribed.
C38_DispatchReachesSubscriber ==
    [][(ret'.op = "handleMessage" /\ ~ret'.threw /\ Len(dbMessages') > Len(dbMessages))
          => TgClient \in ms'[ret'.val].subscribers]_vars

\* C39: a result, error or timeout handler that resumes from its Telegram API
\* call clears only the active response it was started for, never one that
\* startActiveResponse installed in between.
C39_ClearsOnlyItsOwn ==
    [][\A k \in DOMAIN tg.finishing :
          TgFinish(k) => tg.activeResponse \in {NoMessage, tg.finishing[k]}]_vars

====
